---- MODULE Spec2Model ----
(***************************************************************************)
(* Model of PKUAuth.login (src/pku_downloader/auth/__init__.py): the       *)
(* navigation to the identity provider, the submission of the credentials, *)
(* the outcome poll loop, course extraction, session creation, the except  *)
(* clauses and the finally block of login.                                 *)
(*                                                                         *)
(* Time is counted in ticks of one poll interval (0.5 s).  The page (the   *)
(* location and the status element) belongs to the environment and may     *)
(* change between any two steps; every call on the driver may fault.       *)
(***************************************************************************)
EXTENDS Integers, Sequences, FiniteSets, TLC

----------------------------------------------------------------------------
(* Bounds of the model *)

\* largest attempt index a caller passes to login
MaxAttempt == 1
\* largest extra time, in ticks, one poll iteration takes beyond its sleep
MaxLatency == 1
\* longest link text and longest href, in symbols, of the course links
MaxText == 4
MaxHref == 3
\* largest number of links of a course list
MaxLinks == 3
\* largest number of cookies the driver holds
MaxCookies == 2
\* largest number of courses of a live course list
MaxCourses == 2
\* largest number of calls of ensure_course_config on one file
MaxCalls == 2
\* largest number of files of a downloaded archive
MaxNames == 2

----------------------------------------------------------------------------
(* Program constants *)

IAAA_DOMAIN == "iaaa.pku.edu.cn"
HOME_URL_MARKER == "portal/execute/tabs/tabAction"
\* ticks per second: check_interval = 0.5 and time.sleep(0.5)
TicksPerSecond == 2
\* redirect timeout of the first attempt, seconds
FirstTimeout == 5
\* redirect timeout of a retry, seconds
RetryTimeout == 15
\* ceiling of the outcome poll loop, seconds
max_wait == 40
\* str(e)[:100]
MsgLimit == 100

\* The two in-progress phrases of the status element, each one symbol.
PROGRESS_ZH == "P"
PROGRESS_EN == "L"

----------------------------------------------------------------------------
(* Strings are sequences of symbols; Optional[str] is a record. *)

None == [isNone |-> TRUE, s |-> <<>>]
Str(s) == [isNone |-> FALSE, s |-> s]

Take(s, n) == IF Len(s) <= n THEN s ELSE SubSeq(s, 1, n)

LOGIN_TIMEOUT_MSG == <<"login-timeout">>
BROWSER_ERROR_PREFIX == <<"browser-error: ">>
UNKNOWN_ERROR_PREFIX == <<"unknown-error: ">>

\* A location is the set of the substrings the code looks for that it contains.
Locations == SUBSET {IAAA_DOMAIN, HOME_URL_MARKER}

(* re.sub(r'<[^>]+>', '', html): leftmost matches, each from a "<" over at  *)
(* least one symbol other than ">" to the first ">" after it.               *)
RECURSIVE FirstGt(_, _)
FirstGt(s, i) ==
    IF i > Len(s) THEN 0
    ELSE IF s[i] = ">" THEN i
    ELSE FirstGt(s, i + 1)

RECURSIVE StripTagsFrom(_, _)
StripTagsFrom(s, i) ==
    IF i > Len(s) THEN <<>>
    ELSE IF s[i] = "<" /\ FirstGt(s, i + 1) >= i + 2
         THEN StripTagsFrom(s, FirstGt(s, i + 1) + 1)
         ELSE <<s[i]>> \o StripTagsFrom(s, i + 1)

\* a text without "<" has no match and is scanned no further
StripTags(s) == IF \E i \in 1..Len(s) : s[i] = "<" THEN StripTagsFrom(s, 1) ELSE s

\* str.strip()
RECURSIVE LStrip(_)
LStrip(s) == IF s # <<>> /\ Head(s) = " " THEN LStrip(Tail(s)) ELSE s

RECURSIVE RStrip(_)
RStrip(s) ==
    IF s # <<>> /\ s[Len(s)] = " " THEN RStrip(SubSeq(s, 1, Len(s) - 1)) ELSE s

Strip(s) == RStrip(LStrip(s))

\* clean_text = re.sub(r'<[^>]+>', '', error_html).strip()
CleanText(html) == Strip(StripTags(html))

\* phrase in text
Contains(text, phrase) == \E i \in 1..Len(text) : text[i] = phrase

----------------------------------------------------------------------------
(* The status element  <span id="msg">  of the provider's page *)

\* a status text longer than MsgLimit
LongHtml == [i \in 1..(MsgLimit + 1) |-> "E"]

\* inner HTML values the provider's page shows; "E" and "F" are two error
\* texts, "i" a tag name
StatusHtmls ==
    { <<>>,
      LongHtml,
      <<"<", "i", ">", " ">>,
      <<"<", "i", ">", " ", "E">>,
      <<"F">>,
      <<PROGRESS_ZH, ".", ".", ".">>,
      <<"<", "i", ">", PROGRESS_EN>>,
      <<"E", " ", PROGRESS_ZH>> }

\* find_element raises NoSuchElementException when present is FALSE
MsgStates ==
    { [present |-> FALSE, displayed |-> FALSE, html |-> <<>>],
      [present |-> TRUE, displayed |-> FALSE, html |-> <<"F">>] }
    \cup { [present |-> TRUE, displayed |-> TRUE, html |-> h] : h \in StatusHtmls }

\* IsErrorText without its test for the English in-progress phrase
IsErrorText_zh_only(clean_text) ==
    /\ clean_text # <<>>
    /\ ~Contains(clean_text, PROGRESS_ZH)

\* the condition of line 350, on the cleaned text
IsErrorText(clean_text) ==
    /\ clean_text # <<>>
    /\ ~Contains(clean_text, PROGRESS_ZH)
    /\ ~Contains(clean_text, PROGRESS_EN)
    /\ clean_text # <<>>

\* the condition of line 379, on the cleaned text
IsErrorTextFinal(clean_text) ==
    /\ clean_text # <<>>
    /\ ~Contains(clean_text, PROGRESS_ZH)
    /\ ~Contains(clean_text, PROGRESS_EN)

\* lines 344-350: the element is found, displayed and carries an error text
ShowsError(m) ==
    m.present /\ m.displayed /\ IsErrorText(CleanText(m.html))

\* lines 375-379
ShowsErrorFinal(m) ==
    m.present /\ m.displayed /\ IsErrorTextFinal(CleanText(m.html))

----------------------------------------------------------------------------
(* Exceptions *)

\* what a call on the driver may raise (NoSuchElementException is part of
\* MsgStates)
DriverFaults == {"TimeoutException", "WebDriverException", "Exception"}
ReadOutcomes == {"ok"} \cup DriverFaults
FaultTexts == { <<"e">>, [i \in 1..(MsgLimit + 1) |-> "x"] }

NoExc == [kind |-> "none", text |-> <<>>]
Exc(k, t) == [kind |-> k, text |-> t]

\* isinstance(e, cls) for the classes login names
IsInstance(kind, cls) ==
    \/ kind = cls
    \/ cls = "WebDriverException" /\ kind = "TimeoutException"
    \/ cls = "Exception"
         /\ kind \in {"LoginError", "TimeoutException", "WebDriverException"}

----------------------------------------------------------------------------
(* The course links of the landing page, lines 404-433.  A link text is a  *)
(* sequence of symbols; the full-width colon and parentheses and the       *)
(* marker 'id=PkId{key=' are one symbol each.                              *)

COLON == ":"
FW_COLON == "fw:"
LPAREN == "("
RPAREN == ")"
FW_LPAREN == "fw("
KEY_MARKER == "id=PkId{key="
COMMA == ","
\* the scheme of an absolute href
SCHEME == "https:"
\* driver.current_url of the landing page, the base of urljoin
BASE_URL == <<SCHEME, "/portal/">>

\* str.rfind(c) + 1: the last position of c in s, 0 when there is none
RECURSIVE RFind(_, _)
RFind(s, c) ==
    IF s = <<>> THEN 0
    ELSE IF s[Len(s)] = c THEN Len(s)
    ELSE RFind(SubSeq(s, 1, Len(s) - 1), c)

\* str.find(c, from - 1) + 1: the first position of c in s at or after from,
\* 0 when there is none
RECURSIVE Find(_, _, _)
Find(s, c, from) ==
    IF from > Len(s) THEN 0
    ELSE IF s[from] = c THEN from
    ELSE Find(s, c, from + 1)

Max(a, b) == IF a >= b THEN a ELSE b

\* the sequences over S of length n at most
SeqsUpTo(S, n) == UNION { [1..k -> S] : k \in 0..n }

\* lines 407-413: the name of a link text (positions count from 1 here)
CourseName(text) ==
    LET raw == Strip(text)
        colon_pos == Max(RFind(raw, COLON), RFind(raw, FW_COLON))
        start == colon_pos + 1
        paren_pos == Find(raw, LPAREN, start)
        end == IF paren_pos # 0 THEN paren_pos ELSE Len(raw) + 1
    IN  Strip(SubSeq(raw, start, end - 1))

\* CourseId taking the text up to the end of the href when no comma follows
CourseId_to_end(href) ==
    IF href.isNone \/ href.s = <<>> \/ ~Contains(href.s, KEY_MARKER) THEN None
    ELSE LET start == Find(href.s, KEY_MARKER, 1) + 1
             end == Find(href.s, COMMA, start)
         IN  IF end # 0 THEN Str(SubSeq(href.s, start, end - 1))
             ELSE Str(SubSeq(href.s, start, Len(href.s)))

\* lines 417-423: the id of an href (an Optional[str]), None when the href
\* carries no marker or no comma after it
CourseId(href) ==
    IF href.isNone \/ href.s = <<>> \/ ~Contains(href.s, KEY_MARKER) THEN None
    ELSE LET start == Find(href.s, KEY_MARKER, 1) + 1
             end == Find(href.s, COMMA, start)
         IN  IF end # 0 THEN Str(SubSeq(href.s, start, end - 1)) ELSE None

\* urljoin(base, href): an empty href gives the base, an absolute href is
\* kept, a relative one is resolved against the base
Urljoin(base, href) ==
    IF href = <<>> THEN base
    ELSE IF Head(href) = SCHEME THEN href
    ELSE base \o href

\* Emits with the test of the name alone
Emits_name_only(link) == CourseName(link.text) # <<>>

\* line 428: if name and course_id and url
Emits(link) ==
    /\ CourseName(link.text) # <<>>
    /\ ~CourseId(link.href).isNone /\ CourseId(link.href).s # <<>>
    /\ ~link.href.isNone /\ link.href.s # <<>>

\* lines 429-433
CourseRecord(link) ==
    [name |-> CourseName(link.text),
     id |-> CourseId(link.href).s,
     url |-> Urljoin(BASE_URL, link.href.s)]

\* lines 406-433: the records of the first n links, in the order of the links
RECURSIVE ExtractCourses(_, _)
ExtractCourses(ls, n) ==
    IF n = 0 THEN <<>>
    ELSE ExtractCourses(ls, n - 1)
            \o (IF Emits(ls[n]) THEN <<CourseRecord(ls[n])>> ELSE <<>>)

(* The links of which extraction reads before it ends: all of them, or,   *)
(* when a read of the driver faults (the wait of line 396, find_elements, *)
(* link.text, get_attribute, current_url), those before the fault.        *)
LinksRead(ls, faulted) ==
    IF ~faulted THEN {Len(ls)}
    ELSE IF ls = <<>> THEN {0}
    ELSE 0..(Len(ls) - 1)

----------------------------------------------------------------------------
(* The cookies of the driver, lines 450-459.  A cookie is a dict; a key it *)
(* lacks is ABSENT here.                                                   *)

ABSENT == "absent"
PY_NONE == "None"

\* line 451
HasNameAndValue(cookie) == cookie.name # ABSENT /\ cookie.value # ABSENT

\* CookieEntry with the path of every entry set to the default
CookieEntry_default_path(cookie) ==
    [name |-> cookie.name,
     value |-> cookie.value,
     domain |-> IF cookie.domain = ABSENT THEN PY_NONE ELSE cookie.domain,
     path |-> "/",
     secure |-> IF cookie.secure = ABSENT THEN "False" ELSE cookie.secure,
     expires |-> IF cookie.expiry = ABSENT THEN PY_NONE ELSE cookie.expiry]

\* lines 452-459: the arguments of session.cookies.set
CookieEntry(cookie) ==
    [name |-> cookie.name,
     value |-> cookie.value,
     domain |-> IF cookie.domain = ABSENT THEN PY_NONE ELSE cookie.domain,
     path |-> IF cookie.path = ABSENT THEN "/" ELSE cookie.path,
     secure |-> IF cookie.secure = ABSENT THEN "False" ELSE cookie.secure,
     expires |-> IF cookie.expiry = ABSENT THEN PY_NONE ELSE cookie.expiry]

\* a cookie jar holds one entry for a domain, a path and a name
CookieKey(e) == <<e.domain, e.path, e.name>>

\* session.cookies.set: the entry replaces the one of its key
JarSet(jar, e) == { x \in jar : CookieKey(x) # CookieKey(e) } \cup {e}

\* lines 450-459: the jar after the first n cookies
RECURSIVE CopyCookies(_, _)
CopyCookies(cs, n) ==
    IF n = 0 THEN {}
    ELSE IF HasNameAndValue(cs[n])
         THEN JarSet(CopyCookies(cs, n - 1), CookieEntry(cs[n]))
         ELSE CopyCookies(cs, n - 1)

\* the cookies a driver may hold: each key there or not
Cookies ==
    { [name |-> n, value |-> v, domain |-> d, path |-> p, secure |-> x[1],
       expiry |-> x[2]] :
        n \in {ABSENT, "a", "b"}, v \in {ABSENT, "v"}, d \in {ABSENT, "d"},
        p \in {ABSENT, "/p"}, x \in {<<ABSENT, ABSENT>>, <<"True", "e">>} }

\* the values of driver.get_cookies() session creation is applied to
CookieLists == SeqsUpTo(Cookies, MaxCookies)

\* the cookies of the portal's session in the browser
PortalCookies ==
    << [name |-> "JSESSIONID", value |-> "v", domain |-> "course.pku.edu.cn",
        path |-> "/", secure |-> "True", expiry |-> ABSENT] >>

\* the symbols of link texts and of hrefs
TextSymbols == {"N", " ", COLON, FW_COLON, LPAREN, FW_LPAREN}
HrefSymbols == {SCHEME, KEY_MARKER, "v", COMMA}

GoodText == <<"c", COLON, "N", LPAREN, "x", RPAREN>>
GoodHref == Str(<<"/c?", KEY_MARKER, "1", COMMA, "}">>)

\* links of each kind: complete ones (relative and absolute href), one with
\* an empty name, one whose href has no token, one without href
SampleLinks ==
    { [text |-> GoodText, href |-> GoodHref],
      [text |-> <<"M", FW_LPAREN, "y">>,
       href |-> Str(<<SCHEME, "/c?", KEY_MARKER, "2", COMMA>>)],
      [text |-> <<"c", FW_COLON, " ", LPAREN, "x">>, href |-> GoodHref],
      [text |-> GoodText, href |-> Str(<<"/c?", "id=", "3">>)],
      [text |-> GoodText, href |-> None] }

\* the course lists extraction is applied to: one link of every text, one
\* link of every href, and the lists of sample links
LinkLists ==
    { <<[text |-> t, href |-> GoodHref]>> : t \in SeqsUpTo(TextSymbols, MaxText) }
    \cup { <<[text |-> GoodText, href |-> h]>> :
             h \in {None} \cup { Str(u) : u \in SeqsUpTo(HrefSymbols, MaxHref) } }
    \cup SeqsUpTo(SampleLinks, MaxLinks)

\* the course lists the landing page shows to the call
PageLinkLists == { <<>>, << [text |-> GoodText, href |-> GoodHref] >> }

----------------------------------------------------------------------------
(* course_config.py.  A dict is a record of its values with the set of the *)
(* keys it has; the value of a key it lacks is a filler that is never      *)
(* read.  A course of the live list is a record of Optional values, None   *)
(* for a key the course lacks.                                             *)

\* the default tab and the default section, one symbol
DEFAULT_TAB == "TeachingContent"
DEFAULT_SECTIONS == << <<DEFAULT_TAB>> >>
DEFAULT_FLATTEN == TRUE

EntryKeys == {"name", "alias", "skip", "sections", "flatten", "selected_tabs"}

\* x in list
InList(x, list) == \E i \in 1..Len(list) : list[i] = x

\* a value of the key sections: a list of names, a string, or JSON null
SectionList(items) == [kind |-> "list", v |-> items]
SectionStr(s) == [kind |-> "str", v |-> <<s>>]
SectionNull == [kind |-> "null", v |-> <<>>]

\* the entry with no key, and the fillers of the keys a dict lacks
EmptyEntry ==
    [keys |-> {}, name |-> None, alias |-> None, skip |-> FALSE,
     sections |-> SectionNull, flatten |-> FALSE, selected_tabs |-> None]

\* course.get("available_tabs", [])
AvailableTabs(course) ==
    IF course.available_tabs.isNone THEN <<>> ELSE course.available_tabs.s

\* lines 23, 95
DefaultTabs(available_tabs) ==
    IF InList(DEFAULT_TAB, available_tabs) THEN <<DEFAULT_TAB>> ELSE <<>>

\* lines 20-32
DefaultEntry(course) ==
    [keys |-> EntryKeys,
     name |-> IF course.name.isNone THEN Str(<<>>) ELSE course.name,
     alias |-> Str(<<>>),
     skip |-> FALSE,
     sections |-> SectionList(DEFAULT_SECTIONS),
     flatten |-> DEFAULT_FLATTEN,
     selected_tabs |-> Str(DefaultTabs(AvailableTabs(course)))]

\* [item.strip() for item in items if item.strip()]
RECURSIVE StripNonBlank(_)
StripNonBlank(items) ==
    IF items = <<>> THEN <<>>
    ELSE (IF Strip(Head(items)) # <<>> THEN <<Strip(Head(items))>> ELSE <<>>)
            \o StripNonBlank(Tail(items))

\* str.split(sep)
RECURSIVE Split(_, _)
Split(s, sep) ==
    IF Find(s, sep, 1) = 0 THEN <<s>>
    ELSE <<SubSeq(s, 1, Find(s, sep, 1) - 1)>>
            \o Split(SubSeq(s, Find(s, sep, 1) + 1, Len(s)), sep)

\* x or list(DEFAULT_SECTIONS)
OrDefaultSections(sections) ==
    IF sections # <<>> THEN sections ELSE DEFAULT_SECTIONS

\* lines 35-42
NormaliseSections(value) ==
    IF value.kind = "list" THEN OrDefaultSections(StripNonBlank(value.v))
    ELSE IF value.kind = "str"
         THEN OrDefaultSections(StripNonBlank(Split(value.v[1], COMMA)))
    ELSE DEFAULT_SECTIONS

\* lines 82-84: the value of a key after the defaults were filled in
Filled(entry, defaults) ==
    [keys |-> entry.keys \cup defaults.keys,
     name |-> IF "name" \in entry.keys THEN entry.name ELSE defaults.name,
     alias |-> IF "alias" \in entry.keys THEN entry.alias ELSE defaults.alias,
     skip |-> IF "skip" \in entry.keys THEN entry.skip ELSE defaults.skip,
     sections |->
        IF "sections" \in entry.keys THEN entry.sections ELSE defaults.sections,
     flatten |->
        IF "flatten" \in entry.keys THEN entry.flatten ELSE defaults.flatten,
     selected_tabs |->
        IF "selected_tabs" \in entry.keys THEN entry.selected_tabs
        ELSE defaults.selected_tabs]

\* MergeTabs re-filling an emptied selection with the default
MergeTabs_refills(saved_tabs, available_tabs) ==
    IF saved_tabs.isNone \/ saved_tabs.s = <<>>
    THEN DefaultTabs(available_tabs)
    ELSE LET Available(t) == InList(t, available_tabs)
         IN  SelectSeq(saved_tabs.s, Available)

\* lines 90-101
MergeTabs(saved_tabs, available_tabs) ==
    IF saved_tabs.isNone THEN DefaultTabs(available_tabs)
    ELSE IF saved_tabs.s = <<>> THEN <<>>
    ELSE LET Available(t) == InList(t, available_tabs)
         IN  SelectSeq(saved_tabs.s, Available)

\* lines 80-101: the stored entry merged with the live course
MergeEntry(stored, course) ==
    LET filled == Filled(stored, DefaultEntry(course))
    IN  [filled EXCEPT
            !.name = course.name,
            !.selected_tabs = Str(MergeTabs(@, AvailableTabs(course)))]

\* Finish that resets the alias
Finish_drops_alias(entry) ==
    [entry EXCEPT
        !.sections = SectionList(NormaliseSections(@)),
        !.alias = Str(<<>>)]

\* lines 103-106 (every key is present by now; bool() of a flag is the flag)
Finish(entry) ==
    [entry EXCEPT
        !.sections = SectionList(NormaliseSections(@)),
        !.alias = Str(Strip(IF @.isNone THEN <<>> ELSE @.s))]

\* lines 73-106: the entry of one live course
NormaliseEntry(data, course) ==
    LET stored == IF course.id.s \in DOMAIN data THEN data[course.id.s]
                  ELSE EmptyEntry
    IN  Finish(IF stored.keys = {} THEN DefaultEntry(course)
               ELSE MergeEntry(stored, course))

\* f[k] = v
Put(f, k, v) == [x \in DOMAIN f \cup {k} |-> IF x = k THEN v ELSE f[x]]

\* the dict without entries
EmptyMap == [x \in {} |-> EmptyEntry]

\* Skipped for a loop that keeps the courses without id
Skipped_none(course) == FALSE

\* lines 70-72: if not course_id: continue
Skipped(course) == course.id.isNone \/ course.id.s = <<>>

\* lines 67-108: the mapping after the first n courses of the list
RECURSIVE Normalise(_, _, _)
Normalise(data, list, n) ==
    IF n = 0 THEN EmptyMap
    ELSE IF Skipped(list[n]) THEN Normalise(data, list, n - 1)
    ELSE Put(Normalise(data, list, n - 1), list[n].id.s,
             NormaliseEntry(data, list[n]))

\* the content of the file: absent, not JSON, JSON of another shape, or a
\* payload with a courses dict
AbsentFile == [kind |-> "absent", courses |-> EmptyMap]
InvalidFile == [kind |-> "invalid", courses |-> EmptyMap]
WrongShapeFile == [kind |-> "wrong_shape", courses |-> EmptyMap]
ConfigFile(mapping) == [kind |-> "config", courses |-> mapping]

\* lines 50-65: data as loaded; read_ok is FALSE when open or read raises
\* OSError
LoadData(f, read_ok) ==
    IF f.kind = "config" /\ read_ok THEN f.courses ELSE EmptyMap

\* line 110
NeedsWrite(new, old, is_created) == new # old \/ is_created

----------------------------------------------------------------------------
(* The inputs of ensure_course_config: course lists and file contents.     *)

\* a key with a value, and a key the dict lacks (with the filler of the key)
Has(v) == [has |-> TRUE, v |-> v]
Lacks(filler) == [has |-> FALSE, v |-> filler]

\* the dict of a stored entry from the choice made for each key
Entry(name, alias, skip, sections, flatten, selected_tabs) ==
    [keys |->
        { k \in EntryKeys :
            \/ k = "name" /\ name.has
            \/ k = "alias" /\ alias.has
            \/ k = "skip" /\ skip.has
            \/ k = "sections" /\ sections.has
            \/ k = "flatten" /\ flatten.has
            \/ k = "selected_tabs" /\ selected_tabs.has },
     name |-> name.v, alias |-> alias.v, skip |-> skip.v,
     sections |-> sections.v, flatten |-> flatten.v,
     selected_tabs |-> selected_tabs.v]

\* the values a user or the tool left under the keys of an entry
UserName == Str(<<"O">>)
UserAlias == Str(<<" ", "a">>)
UserSections == SectionList(<< <<" ", "S">>, <<"T">> >>)
UserTabs == Str(<<DEFAULT_TAB, "Gone">>)

\* the entries that have or lack each key
PresenceEntries ==
    { Entry(n, a, k, s, f, t) :
        n \in { Lacks(None), Has(UserName) },
        a \in { Lacks(None), Has(UserAlias) },
        k \in { Lacks(FALSE), Has(TRUE) },
        s \in { Lacks(SectionNull), Has(UserSections) },
        f \in { Lacks(FALSE), Has(FALSE) },
        t \in { Lacks(None), Has(UserTabs) } }

\* the entries with every key, one of them holding another value: JSON
\* null, an empty or a clean alias; clean, empty or blank sections or a
\* sections string; no tab, one tab no longer offered, the flags reversed
VariantEntries ==
    { Entry(Has(UserName), a, Has(TRUE), Has(UserSections), Has(FALSE),
            Has(UserTabs)) :
        a \in { Has(None), Has(Str(<<>>)), Has(Str(<<"a">>)) } }
    \cup
    { Entry(Has(UserName), Has(UserAlias), Has(TRUE), s, Has(FALSE),
            Has(UserTabs)) :
        s \in { Has(SectionList(<< <<"S">> >>)), Has(SectionList(<<>>)),
                Has(SectionList(<< <<" ">> >>)),
                Has(SectionStr(<<"S", COMMA, " ", "T">>)),
                Has(SectionNull) } }
    \cup
    { Entry(Has(UserName), Has(UserAlias), k, Has(UserSections), f, t) :
        k \in { Has(FALSE), Has(TRUE) }, f \in { Has(FALSE), Has(TRUE) },
        t \in { Has(None), Has(Str(<<>>)), Has(Str(<<"Gone">>)),
                Has(Str(<<"X", DEFAULT_TAB>>)) } }

\* the entries a file can hold for one id
StoredEntries == PresenceEntries \cup VariantEntries

\* an entry of another id
OtherEntry ==
    Entry(Has(Str(<<"Z">>)), Has(Str(<<"z">>)), Has(TRUE),
          Has(SectionList(<< <<"S">> >>)), Has(FALSE), Has(Str(<<"X">>)))

\* the contents of the file: none, not JSON, another shape, no entry, an
\* entry for id 1 alone or beside the entry of an id that is not live
Files ==
    { AbsentFile, InvalidFile, WrongShapeFile, ConfigFile(EmptyMap) }
    \cup { ConfigFile(Put(EmptyMap, <<"1">>, e)) : e \in StoredEntries }
    \cup { ConfigFile(Put(Put(EmptyMap, <<"1">>, e), <<"9">>, OtherEntry)) :
             e \in { Entry(Lacks(None), Lacks(None), Lacks(FALSE),
                           Lacks(SectionNull), Lacks(FALSE), Lacks(None)),
                     OtherEntry } }
    \cup { ConfigFile(Put(EmptyMap, <<"9">>, OtherEntry)) }

\* the courses of the live list: as login extracts them (name, id), with
\* the tabs a caller adds, without name, without id, with an empty id
LiveCourses ==
    { [id |-> Str(<<"1">>), name |-> Str(<<"N">>), available_tabs |-> None],
      [id |-> Str(<<"1">>), name |-> None,
       available_tabs |-> Str(<<DEFAULT_TAB, "X">>)],
      [id |-> Str(<<"1">>), name |-> Str(<<"M">>),
       available_tabs |-> Str(<<"X">>)],
      [id |-> Str(<<"2">>), name |-> Str(<<"N">>),
       available_tabs |-> Str(<<DEFAULT_TAB>>)],
      [id |-> Str(<<>>), name |-> Str(<<"N">>), available_tabs |-> None],
      [id |-> None, name |-> Str(<<"N">>),
       available_tabs |-> Str(<<DEFAULT_TAB>>)] }

LiveLists == SeqsUpTo(LiveCourses, MaxCourses)

----------------------------------------------------------------------------
(* install_edge_driver_silently (browser/edge_utils.py): pure parts. Texts *)
(* are sequences of pieces.                                                *)

DRIVER_EXE == <<"msedgedriver", ".exe">>

\* needle in text
HasSubstring(text, needle) ==
    \E i \in 1..(Len(text) - Len(needle) + 1) :
        SubSeq(text, i, i + Len(needle) - 1) = needle

\* lines 15-34: a registry read gives None when it raises
get_edge_version(platform, current_user, local_machine) ==
    IF platform # "Windows" THEN None
    ELSE IF ~current_user.isNone THEN current_user
    ELSE local_machine

\* not version
Falsy(version) == version.isNone \/ version.s = <<>>

\* DownloadSources with the mirror before the Microsoft source
DownloadSources_mirror_first(version) ==
    << [name |-> "Aliyun Mirror",
        url |-> <<"https://npmmirror.com/mirrors/edgedriver/">> \o version
                    \o <<"/edgedriver_win64.zip">>],
       [name |-> "Microsoft Azure",
        url |-> <<"https://msedgedriver.azureedge.net/">> \o version
                    \o <<"/edgedriver_win64.zip">>] >>

\* lines 47-56
DownloadSources(version) ==
    << [name |-> "Microsoft Azure",
        url |-> <<"https://msedgedriver.azureedge.net/">> \o version
                    \o <<"/edgedriver_win64.zip">>],
       [name |-> "Aliyun Mirror",
        url |-> <<"https://npmmirror.com/mirrors/edgedriver/">> \o version
                    \o <<"/edgedriver_win64.zip">>] >>

\* what a source answers: the request raises, the status is an error, the
\* content is no zip archive, or it is an archive with these file names
Response(kind, names) == [kind |-> kind, names |-> names]
NoResponse == Response("none", <<>>)

\* lines 71-78: the position of the first name holding the driver's name,
\* 0 when there is none
FirstDriver(names) ==
    IF \E i \in 1..Len(names) : HasSubstring(names[i], DRIVER_EXE)
    THEN CHOOSE i \in 1..Len(names) :
            /\ HasSubstring(names[i], DRIVER_EXE)
            /\ \A j \in 1..(i - 1) : ~HasSubstring(names[j], DRIVER_EXE)
    ELSE 0

\* the driver file in target_dir
DriverFile(state, from) == [state |-> state, from |-> from]
NoDriverFile == DriverFile("absent", "")
OldDriverFile == DriverFile("old", "")

\* the platforms, registry values, file names and answers of the runs
Platforms == { "Windows", "Linux" }
RegistryValues == { None, Str(<<>>), Str(<<"120">>), Str(<<"121">>) }
ArchiveNames ==
    { DRIVER_EXE, <<"x64/">> \o DRIVER_EXE, DRIVER_EXE \o <<".sig">>,
      <<"msedgedriver">>, <<"notes", ".txt">> }
Archives == SeqsUpTo(ArchiveNames, MaxNames)
Responses ==
    { Response("error", <<>>), Response("status", <<>>),
      Response("badzip", <<>>) }
    \cup { Response("zip", names) : names \in Archives }

----------------------------------------------------------------------------
(* Values *)

NoSession == [present |-> FALSE, ua |-> "", cookies |-> {}]

Pending == [tag |-> "Pending", msg |-> <<>>]
Success == [tag |-> "Success", msg |-> <<>>]
AuthError(m) == [tag |-> "AuthError", msg |-> m]
Timeout == [tag |-> "Timeout", msg |-> <<>>]
Fault == [tag |-> "Fault", msg |-> <<>>]

NoResult == [session |-> NoSession, courses |-> <<>>, error |-> None]

----------------------------------------------------------------------------
VARIABLES
    pc,         \* position of the login call
    attempt,    \* the attempt argument of the running call
    hasWindow,  \* self.webview_window is supplied
    session,    \* self.session
    courses,    \* self.courses
    url,        \* driver.current_url of the page
    msg,        \* the status element of the page
    elapsed,    \* ticks since the start of the running poll loop, 0 outside
    exc,        \* the exception in flight
    result,     \* the value of the return statement that was reached
    outcome,    \* how _wait_for_home ended in this call
    hides,      \* calls of webview_window.hide() in this call
    shows,      \* calls of webview_window.show() in this call
    lastWin,    \* the last call on webview_window in this call
    tolerated,  \* a fault was caught and logged inside this call
    trace,      \* the phases entered in this call, in order
    links,      \* the course links of the page the driver shows
    cookies,    \* driver.get_cookies()
    sent,       \* what this call sent to the login form: "keys", "click"
    pollFaults, \* a read of the driver faulted in an iteration of the
                \* outcome poll of this call
    config_file,    \* the content of the file at config_path
    live,           \* the courses argument of the last ensure_course_config
    cfg_return,     \* what the last ensure_course_config returned
    cfg_written,    \* what the last call did to the file: "none",
                    \* "written", "failed"
    cfg_read_failed,\* the read of the file raised OSError in the last call
    cfg_before,     \* the content of the file when the last call began
    cfg_prev,       \* what the call before the last returned
    cfg_calls,      \* calls of ensure_course_config so far
    edge_pc,        \* position of the call of install_edge_driver_silently
    edge_version,   \* version, as get_edge_version returned it
    edge_source,    \* the position of the loop in urls
    edge_resp,      \* what the source of this iteration answered
    edge_contacted, \* the sources requests.get was called on, in order
    edge_results,   \* how the iteration of each contacted source ended
    edge_file,      \* msedgedriver.exe in target_dir
    edge_return,    \* what the call returned: "none", "True", "False"
    main_pc,        \* position of main
    driver,         \* the variable driver of main holds a driver
    quits,          \* calls of driver.quit() so far
    main_return,    \* the value of the return statement main executed:
                    \* "none", "0", "1", "130", or "raised" when an
                    \* exception leaves main
    main_exit,      \* the events of the path main leaves by
    main_exc        \* the exception in flight in main

objVars == <<hasWindow, session, courses>>
pageVars == <<url, msg, links, cookies>>
clockVars == <<elapsed>>
winVars == <<hides, shows, lastWin>>
uiVars == <<sent>>
raceVars == <<pollFaults>>
callVars ==
    <<pc, attempt, exc, result, outcome, tolerated, trace, uiVars, raceVars>>
loginVars == <<objVars, pageVars, clockVars, winVars, callVars>>
cfgVars ==
    <<config_file, live, cfg_return, cfg_written, cfg_read_failed, cfg_before,
      cfg_prev, cfg_calls>>
edgeVars ==
    <<edge_pc, edge_version, edge_source, edge_resp, edge_contacted,
      edge_results, edge_file, edge_return>>
mainVars == <<main_pc, driver, quits, main_return, main_exit, main_exc>>
auxVars == <<cfgVars, edgeVars, mainVars>>
vars == <<loginVars, auxVars>>

Running ==
    { "nav_hide", "nav_get", "nav_link", "nav_click", "nav_click_js",
      "nav_after_click", "nav_poll", "perf_form", "perf_type", "perf_click",
      "perf_click_js", "wait_start",
      "wait_poll", "extract", "create_session", "except", "finally" }

\* the exception in flight is the interrupt
Interrupted == exc.kind = "KeyboardInterrupt"

\* no call of ensure_course_config was made and there is no file
NoReturn == [created |-> FALSE, courses |-> EmptyMap]

ConfigAtRest ==
    /\ config_file = AbsentFile
    /\ live = <<>>
    /\ cfg_return = NoReturn
    /\ cfg_written = "none"
    /\ cfg_read_failed = FALSE
    /\ cfg_before = AbsentFile
    /\ cfg_prev = NoReturn
    /\ cfg_calls = 0

\* install_edge_driver_silently was not called and there is no driver file
EdgeAtRest ==
    /\ edge_pc = "idle"
    /\ edge_version = None
    /\ edge_source = 0
    /\ edge_resp = NoResponse
    /\ edge_contacted = <<>>
    /\ edge_results = <<>>
    /\ edge_file = NoDriverFile
    /\ edge_return = "none"

\* main does not run
MainAtRest ==
    /\ main_pc = "idle"
    /\ driver = FALSE
    /\ quits = 0
    /\ main_return = "none"
    /\ main_exit = {}
    /\ main_exc = "none"

AuxAtRest == ConfigAtRest /\ EdgeAtRest /\ MainAtRest

\* PKUAuth.__init__
Init ==
    /\ pc = "idle"
    /\ attempt = 0
    /\ hasWindow \in BOOLEAN
    /\ session = NoSession
    /\ courses = <<>>
    /\ url = {}
    /\ msg \in MsgStates
    /\ elapsed = 0
    /\ exc = NoExc
    /\ result = NoResult
    /\ outcome = Pending
    /\ hides = 0
    /\ shows = 0
    /\ lastWin = "none"
    /\ tolerated = FALSE
    /\ trace = <<>>
    /\ links = <<>>
    /\ cookies = PortalCookies
    /\ sent = {}
    /\ pollFaults = FALSE
    /\ AuxAtRest

\* raise e inside the try block of login
Raise(e) ==
    /\ exc' = e
    /\ pc' = "except"

\* webview_window.hide() / .show() is called (when a window is supplied)
\* an except clause below login catches a fault and logs it
Tolerate(faulted) == tolerated' = (tolerated \/ faulted)

CallHide ==
    IF hasWindow
    THEN hides' = hides + 1 /\ lastWin' = "hide" /\ UNCHANGED shows
    ELSE UNCHANGED winVars

CallShow ==
    IF hasWindow
    THEN shows' = shows + 1 /\ lastWin' = "show" /\ UNCHANGED hides
    ELSE UNCHANGED winVars

----------------------------------------------------------------------------
(* A caller calls login(username, password, attempt) on the object. *)

Call(a) ==
    /\ pc \in {"idle", "returned"}
    /\ pc' = "nav_hide"
    /\ attempt' = a
    /\ exc' = NoExc
    /\ result' = NoResult
    /\ outcome' = Pending
    /\ tolerated' = FALSE
    /\ trace' = <<>>
    /\ hides' = 0
    /\ shows' = 0
    /\ lastWin' = "none"
    /\ elapsed' = 0
    /\ sent' = {}
    /\ pollFaults' = FALSE
    /\ UNCHANGED <<objVars, pageVars>>
    /\ UNCHANGED auxVars

----------------------------------------------------------------------------
(* _navigate_to_login *)

\* lines 93-98: hide the window; a fault of hide() is logged
navigate_to_login_hide ==
    /\ pc = "nav_hide"
    /\ CallHide
    /\ \E fails \in BOOLEAN : Tolerate(hasWindow /\ fails)
    /\ pc' = "nav_get"
    /\ trace' = Append(trace, "Navigator")
    /\ UNCHANGED <<objVars, pageVars, clockVars, uiVars, raceVars, attempt, exc, result, outcome>>
    /\ UNCHANGED auxVars

\* lines 100-113: driver.get(LOGIN_URL), which loads the entry page in place
\* of the page shown before, and the wait for the body
navigate_to_login_get ==
    /\ pc = "nav_get"
    /\ \/ /\ url' = {}
          /\ links' = <<>>
          /\ pc' = "nav_link"
          /\ UNCHANGED exc
       \/ /\ \E f \in DriverFaults, t \in FaultTexts : Raise(Exc(f, t))
          /\ UNCHANGED <<url, links>>
    /\ UNCHANGED <<objVars, msg, cookies, clockVars, winVars, uiVars, raceVars, attempt, result, outcome,
                   tolerated, trace>>
    /\ UNCHANGED auxVars

\* lines 119-148: the scan (faults logged), the wait for the link to be
\* clickable, scrollIntoView (faults logged)
navigate_to_login_link ==
    /\ pc = "nav_link"
    /\ \E scan \in BOOLEAN : Tolerate(~scan)
    /\ \/ pc' = "nav_click" /\ UNCHANGED exc
       \/ \E f \in DriverFaults, t \in FaultTexts : Raise(Exc(f, t))
    /\ UNCHANGED <<objVars, pageVars, clockVars, winVars, uiVars, raceVars, attempt, result, outcome, trace>>
    /\ UNCHANGED auxVars

\* AfterNativeClick with the script click issued after every native click
AfterNativeClick_always_script(native_ok, done, fallback) == fallback

\* where a click goes on after its native click: to the script click when
\* the native click raised (lines 157-161, 247-252)
AfterNativeClick(native_ok, done, fallback) ==
    IF native_ok THEN done ELSE fallback

\* lines 152-159: the native click on the link; its fault is logged
navigate_to_login_click ==
    /\ pc = "nav_click"
    /\ \E native \in BOOLEAN :
          /\ Tolerate(~native)
          /\ pc' = AfterNativeClick(native, "nav_after_click", "nav_click_js")
    /\ UNCHANGED <<objVars, pageVars, clockVars, winVars, uiVars, raceVars, attempt, exc, result,
                   outcome, trace>>
    /\ UNCHANGED auxVars

\* lines 160-165, 249, 252: the script click; its fault is raised
ClickFallback(done) ==
    \/ pc' = done /\ UNCHANGED exc
    \/ \E f \in DriverFaults, t \in FaultTexts : Raise(Exc(f, t))

\* lines 160-165: the script click on the link
navigate_to_login_click_js ==
    /\ pc = "nav_click_js"
    /\ ClickFallback("nav_after_click")
    /\ UNCHANGED <<objVars, pageVars, clockVars, winVars, uiVars, raceVars, attempt, result,
                   outcome, tolerated, trace>>
    /\ UNCHANGED auxVars

\* SelectTimeout with the timeout of the first attempt for every attempt
SelectTimeout_always_first(a) == FirstTimeout

\* line 178: timeout = 5 if attempt == 0 else 15
SelectTimeout(a) == IF a = 0 THEN FirstTimeout ELSE RetryTimeout

\* lines 167-182: current_url is read for the log outside any try, the window
\* handles are read (a fault is logged) and the clock of the redirect poll
\* starts

navigate_to_login_after_click ==
    /\ pc = "nav_after_click"
    /\ \/ /\ elapsed' = 0
          /\ pc' = "nav_poll"
          /\ \E handles \in BOOLEAN : Tolerate(~handles)
          /\ UNCHANGED exc
       \/ /\ \E f \in DriverFaults, t \in FaultTexts : Raise(Exc(f, t))
          /\ UNCHANGED <<elapsed, tolerated>>
    /\ UNCHANGED <<objVars, pageVars, winVars, uiVars, raceVars, attempt, result, outcome, trace>>
    /\ UNCHANGED auxVars

\* line 185
RedirectTimedOut == elapsed > SelectTimeout(attempt) * TicksPerSecond

\* Advance when the start of the loop is read anew in every iteration
Advance_stuck(e, lat) == e

\* time.sleep of one interval and the time the iteration itself took
Advance(e, lat) == e + 1 + lat

(* lines 183-206: one iteration of the redirect poll.  Past the timeout   *)
(* current_url is read for the log outside any try (line 186) and          *)
(* TimeoutException is raised.  Otherwise read_ok tells that the reads of  *)
(* current_url at lines 194 and 195 did not fault; a fault is logged at    *)
(* line 198 and the loop goes on.                                          *)
navigate_to_login_poll ==
    /\ pc = "nav_poll"
    /\ \/ /\ RedirectTimedOut
          /\ \/ Raise(Exc("TimeoutException", <<"redirect">>))
             \/ \E f \in DriverFaults, t \in FaultTexts : Raise(Exc(f, t))
          /\ elapsed' = 0
          /\ UNCHANGED tolerated
       \/ /\ ~RedirectTimedOut
          /\ \E read_ok \in BOOLEAN, lat \in 0..MaxLatency :
                IF read_ok /\ IAAA_DOMAIN \in url
                THEN /\ pc' = "perf_form"
                     /\ elapsed' = 0
                     /\ UNCHANGED <<exc, tolerated>>
                ELSE /\ elapsed' = Advance(elapsed, lat)
                     /\ Tolerate(~read_ok)
                     /\ UNCHANGED <<pc, exc>>
    /\ UNCHANGED <<objVars, pageVars, winVars, uiVars, raceVars, attempt, result, outcome, trace>>
    /\ UNCHANGED auxVars

----------------------------------------------------------------------------
(* _perform_login *)

\* perform_login_form with the user name typed before the waits for the
\* password field and the submit control
perform_login_form_types_first ==
    /\ pc = "perf_form"
    /\ trace' = Append(trace, "Submitter")
    /\ \/ pc' = "perf_type" /\ UNCHANGED <<exc, sent>>
       \/ /\ \E f \in DriverFaults, t \in FaultTexts : Raise(Exc(f, t))
          /\ sent' \in {{}, {"keys"}}
    /\ UNCHANGED <<objVars, pageVars, clockVars, winVars, raceVars, attempt, result,
                   outcome, tolerated>>
    /\ UNCHANGED auxVars

\* lines 210-222: the three waits for the form controls; a control that does
\* not become visible or clickable raises TimeoutException
perform_login_form ==
    /\ pc = "perf_form"
    /\ trace' = Append(trace, "Submitter")
    /\ \/ pc' = "perf_type" /\ UNCHANGED exc
       \/ \E f \in DriverFaults, t \in FaultTexts : Raise(Exc(f, t))
    /\ UNCHANGED <<objVars, pageVars, clockVars, winVars, uiVars, raceVars, attempt, result, outcome,
                   tolerated>>
    /\ UNCHANGED auxVars

\* lines 227-241: clear and type into both fields; a fault comes before the
\* first character or after some were sent
perform_login_type ==
    /\ pc = "perf_type"
    /\ \/ /\ pc' = "perf_click"
          /\ sent' = {"keys"}
          /\ UNCHANGED exc
       \/ /\ \E f \in DriverFaults, t \in FaultTexts : Raise(Exc(f, t))
          /\ sent' \in {{}, {"keys"}}
    /\ UNCHANGED <<objVars, pageVars, clockVars, winVars, raceVars, attempt, result,
                   outcome, tolerated, trace>>
    /\ UNCHANGED auxVars

\* lines 244-251: the native click on the submit control; its fault
\* (ElementClickInterceptedException or any other) is logged
perform_login_click ==
    /\ pc = "perf_click"
    /\ \E native \in BOOLEAN :
          /\ Tolerate(~native)
          /\ pc' = AfterNativeClick(native, "wait_start", "perf_click_js")
    /\ sent' = sent \cup {"click"}
    /\ UNCHANGED <<objVars, pageVars, clockVars, winVars, raceVars, attempt, exc,
                   result, outcome, trace>>
    /\ UNCHANGED auxVars

\* lines 249, 252: the script click on the submit control
perform_login_click_js ==
    /\ pc = "perf_click_js"
    /\ ClickFallback("wait_start")
    /\ UNCHANGED <<objVars, pageVars, clockVars, winVars, uiVars, raceVars, attempt, result,
                   outcome, tolerated, trace>>
    /\ UNCHANGED auxVars

----------------------------------------------------------------------------
(* _wait_for_home *)

\* lines 319-323
wait_for_home_start ==
    /\ pc = "wait_start"
    /\ elapsed' = 0
    /\ pc' = "wait_poll"
    /\ trace' = Append(trace, "Race")
    /\ UNCHANGED <<objVars, pageVars, winVars, uiVars, raceVars, attempt, exc, result, outcome,
                   tolerated>>
    /\ UNCHANGED auxVars

\* line 325
PollWindowOpen == elapsed < max_wait * TicksPerSecond

\* PollDecision with the status element examined before the location
PollDecision_failure_first(url_ok, msg_ok, u, m) ==
    IF msg_ok /\ ShowsError(m) THEN "error"
    ELSE IF url_ok /\ HOME_URL_MARKER \in u THEN "success"
    ELSE "sleep"

\* PollDecision when the except clause of line 363 also catches LoginError
PollDecision_swallowed(url_ok, msg_ok, u, m) ==
    IF url_ok /\ HOME_URL_MARKER \in u THEN "success" ELSE "sleep"

(* lines 326-365: what one iteration finds.  url_ok tells that the read of  *)
(* current_url (line 328) did not fault, msg_ok that the reads of the       *)
(* status element (lines 344-347) did not; a fault of either is logged at   *)
(* line 365.                                                                *)
PollDecision(url_ok, msg_ok, u, m) ==
    IF ~url_ok THEN "sleep"
    ELSE IF HOME_URL_MARKER \in u THEN "success"
    ELSE IF ~msg_ok THEN "sleep"
    ELSE IF ShowsError(m) THEN "error"
    ELSE "sleep"

\* wait_for_home_poll without the except clause of line 363: a fault of a
\* read leaves the loop and reaches login
wait_for_home_poll_fault_ends ==
    /\ pc = "wait_poll"
    /\ PollWindowOpen
    /\ \E url_ok \in BOOLEAN, msg_ok \in BOOLEAN, lat \in 0..MaxLatency :
          LET d == PollDecision(url_ok, msg_ok, url, msg)
              faulted == ~url_ok \/ ~msg_ok
          IN
          \/ /\ d = "success"
             /\ CallShow
             /\ \E fails \in BOOLEAN : Tolerate(hasWindow /\ fails)
             /\ outcome' = Success
             /\ pc' = "extract"
             /\ elapsed' = 0
             /\ UNCHANGED <<exc, pollFaults>>
          \/ /\ d = "error"
             /\ outcome' = AuthError(CleanText(msg.html))
             /\ Raise(Exc("LoginError", CleanText(msg.html)))
             /\ elapsed' = 0
             /\ UNCHANGED <<winVars, tolerated, pollFaults>>
          \/ /\ d = "sleep" /\ ~faulted
             /\ elapsed' = Advance(elapsed, lat)
             /\ UNCHANGED <<pc, exc, outcome, winVars, tolerated, pollFaults>>
          \/ /\ d = "sleep" /\ faulted
             /\ \E f \in DriverFaults, t \in FaultTexts : Raise(Exc(f, t))
             /\ outcome' = Fault
             /\ pollFaults' = TRUE
             /\ elapsed' = 0
             /\ UNCHANGED <<winVars, tolerated>>
    /\ UNCHANGED <<objVars, pageVars, uiVars, attempt, result, trace>>
    /\ UNCHANGED auxVars

\* lines 325-368: one iteration of the outcome poll loop
wait_for_home_poll ==
    /\ pc = "wait_poll"
    /\ PollWindowOpen
    /\ \E url_ok \in BOOLEAN, msg_ok \in BOOLEAN, lat \in 0..MaxLatency :
          LET d == PollDecision(url_ok, msg_ok, url, msg) IN
          \/ /\ d = "success"
             /\ CallShow
             /\ \E fails \in BOOLEAN : Tolerate(hasWindow /\ fails)
             /\ outcome' = Success
             /\ pc' = "extract"
             /\ elapsed' = 0
             /\ UNCHANGED <<exc, pollFaults>>
          \/ /\ d = "error"
             /\ outcome' = AuthError(CleanText(msg.html))
             /\ Raise(Exc("LoginError", CleanText(msg.html)))
             /\ elapsed' = 0
             /\ UNCHANGED <<winVars, tolerated, pollFaults>>
          \/ /\ d = "sleep"
             /\ elapsed' = Advance(elapsed, lat)
             /\ Tolerate(~url_ok \/ ~msg_ok)
             /\ pollFaults' = (pollFaults \/ ~url_ok \/ ~msg_ok)
             /\ UNCHANGED <<pc, exc, outcome, winVars>>
    /\ UNCHANGED <<objVars, pageVars, uiVars, attempt, result, trace>>
    /\ UNCHANGED auxVars

\* FinalException without the final check of the status element
FinalException_unchecked(r_url, r_msg, t, m) ==
    IF r_url # "ok" THEN Exc(r_url, t)
    ELSE Exc("TimeoutException", <<"home">>)

(* lines 370-385: the exception the code after the loop raises.  r_url is   *)
(* the read of current_url for the log (line 371), r_msg the reads of the   *)
(* status element (lines 375-378); only NoSuchElementException is caught.   *)
FinalException(r_url, r_msg, t, m) ==
    IF r_url # "ok" THEN Exc(r_url, t)
    ELSE IF r_msg # "ok" THEN Exc(r_msg, t)
    ELSE IF ShowsErrorFinal(m) THEN Exc("LoginError", CleanText(m.html))
    ELSE Exc("TimeoutException", <<"home">>)

\* wait_for_home_final without the raise of line 385: the function returns
wait_for_home_final_returns ==
    /\ pc = "wait_poll"
    /\ ~PollWindowOpen
    /\ outcome' = Timeout
    /\ pc' = "extract"
    /\ elapsed' = 0
    /\ UNCHANGED <<objVars, pageVars, winVars, uiVars, raceVars, attempt, exc, result, tolerated, trace>>
    /\ UNCHANGED auxVars

wait_for_home_final ==
    /\ pc = "wait_poll"
    /\ ~PollWindowOpen
    /\ \E r_url \in ReadOutcomes, r_msg \in ReadOutcomes, t \in FaultTexts :
          /\ Raise(FinalException(r_url, r_msg, t, msg))
          /\ outcome' =
                IF r_url # "ok" \/ r_msg # "ok" THEN Fault
                ELSE IF ShowsErrorFinal(msg) THEN AuthError(CleanText(msg.html))
                ELSE Timeout
    /\ elapsed' = 0
    /\ UNCHANGED <<objVars, pageVars, winVars, uiVars, raceVars, attempt, result, tolerated,
                   trace>>
    /\ UNCHANGED auxVars

----------------------------------------------------------------------------
(* _extract_courses and _create_session *)

\* extract_courses with the fault of a read of the driver raised to login
extract_courses_raises ==
    /\ pc = "extract"
    /\ \/ /\ courses' = ExtractCourses(links, Len(links))
          /\ pc' = "create_session"
          /\ UNCHANGED exc
       \/ /\ Raise(Exc("TimeoutException", <<"list">>))
          /\ UNCHANGED courses
    /\ trace' = Append(trace, "Extractor")
    /\ UNCHANGED <<hasWindow, session, pageVars, clockVars, winVars, uiVars, raceVars, attempt,
                   result, outcome, tolerated>>
    /\ UNCHANGED auxVars

\* lines 55, 387-439: every fault is caught inside and logged; the records
\* appended before a fault are returned
extract_courses ==
    /\ pc = "extract"
    /\ \E faulted \in BOOLEAN : \E n \in LinksRead(links, faulted) :
          /\ courses' = ExtractCourses(links, n)
          /\ Tolerate(faulted)
    /\ pc' = "create_session"
    /\ trace' = Append(trace, "Extractor")
    /\ UNCHANGED <<hasWindow, session, pageVars, clockVars, winVars, uiVars, raceVars, attempt, exc,
                   result, outcome>>
    /\ UNCHANGED auxVars

\* lines 56-57, 441-461
create_session ==
    /\ pc = "create_session"
    /\ trace' = Append(trace, "Materializer")
    /\ \/ /\ session' = [present |-> TRUE, ua |-> "UA",
                         cookies |-> CopyCookies(cookies, Len(cookies))]
          /\ result' = [session |-> session', courses |-> courses, error |-> None]
          /\ pc' = "finally"
          /\ UNCHANGED exc
       \/ /\ \E f \in DriverFaults, t \in FaultTexts : Raise(Exc(f, t))
          /\ UNCHANGED <<session, result>>
    /\ UNCHANGED <<hasWindow, courses, pageVars, clockVars, winVars, uiVars, raceVars, attempt, outcome,
                   tolerated>>
    /\ UNCHANGED auxVars

----------------------------------------------------------------------------
(* login: the except clauses and the finally block *)

\* Handles without the clause for Exception
Handles_no_catch_all(kind) ==
    \E cls \in {"LoginError", "TimeoutException", "WebDriverException"} :
        IsInstance(kind, cls)

\* the classes of the except clauses, lines 59-73
Handles(kind) ==
    \E cls \in {"LoginError", "TimeoutException", "WebDriverException", "Exception"} :
        IsInstance(kind, cls)

\* the message of the first clause that matches, lines 59-75
ErrorMessage(e) ==
    IF IsInstance(e.kind, "LoginError") THEN e.text
    ELSE IF IsInstance(e.kind, "TimeoutException") THEN LOGIN_TIMEOUT_MSG
    ELSE IF IsInstance(e.kind, "WebDriverException")
         THEN BROWSER_ERROR_PREFIX \o Take(e.text, MsgLimit)
    ELSE UNKNOWN_ERROR_PREFIX \o Take(e.text, MsgLimit)

\* FailureResult returning the fields of the object
FailureResult_fields(e) ==
    [session |-> session, courses |-> courses, error |-> Str(ErrorMessage(e))]

\* the return statements of the except clauses, lines 63, 67, 71, 75
FailureResult(e) ==
    [session |-> NoSession, courses |-> <<>>, error |-> Str(ErrorMessage(e))]

\* login_except calling the phases again after a timeout of the first attempt
login_except_retries ==
    /\ pc = "except"
    /\ IF Handles(exc.kind)
       THEN /\ exc' = NoExc
            /\ IF attempt = 0 /\ IsInstance(exc.kind, "TimeoutException")
               THEN pc' = "nav_hide" /\ UNCHANGED result
               ELSE pc' = "finally" /\ result' = FailureResult(exc)
       ELSE pc' = "finally" /\ UNCHANGED <<exc, result>>
    /\ UNCHANGED <<objVars, pageVars, clockVars, winVars, uiVars, raceVars, attempt, outcome,
                   tolerated, trace>>
    /\ UNCHANGED auxVars

\* lines 59-75: return None, [], message; an exception no clause names goes on
login_except ==
    /\ pc = "except"
    /\ pc' = "finally"
    /\ IF Handles(exc.kind)
       THEN /\ result' = FailureResult(exc)
            /\ exc' = NoExc
       ELSE UNCHANGED <<exc, result>>
    /\ UNCHANGED <<objVars, pageVars, clockVars, winVars, uiVars, raceVars, attempt, outcome, tolerated,
                   trace>>
    /\ UNCHANGED auxVars

\* login_finally without the call of show()
login_finally_no_show ==
    /\ pc = "finally"
    /\ pc' = IF exc.kind = "none" THEN "returned" ELSE "raised"
    /\ UNCHANGED <<objVars, pageVars, clockVars, winVars, uiVars, raceVars, attempt, exc, result, outcome,
                   tolerated, trace>>
    /\ UNCHANGED auxVars

\* lines 77-84: show the window (a fault of show() is logged), then the
\* return or the exception in flight leaves login
login_finally ==
    /\ pc = "finally"
    /\ CallShow
    /\ \E fails \in BOOLEAN : Tolerate(hasWindow /\ fails)
    /\ pc' = IF exc.kind = "none" THEN "returned" ELSE "raised"
    /\ UNCHANGED <<objVars, pageVars, clockVars, uiVars, raceVars, attempt, exc, result, outcome, trace>>
    /\ UNCHANGED auxVars

----------------------------------------------------------------------------
(* The environment *)

\* the window call an interrupt at this position may arrive in
WindowCallAt ==
    {"none"}
    \cup (IF pc = "nav_hide" /\ hasWindow THEN {"hide"} ELSE {})
    \cup (IF pc = "finally" /\ hasWindow THEN {"show"} ELSE {})
    \cup (IF pc = "wait_poll" /\ hasWindow /\ PollWindowOpen
             /\ HOME_URL_MARKER \in url
          THEN {"show"} ELSE {})

(* One KeyboardInterrupt is raised between any two instructions of the     *)
(* call: no except clause of the module catches it (each names Exception   *)
(* or a subclass), so from the try block and from an except clause it runs *)
(* the finally block, and from the finally block it leaves login.          *)
Interrupt ==
    /\ pc \in Running
    /\ ~Interrupted
    /\ exc' = Exc("KeyboardInterrupt", <<>>)
    /\ pc' = IF pc = "finally" THEN "raised"
             ELSE IF pc = "except" THEN "finally"
             ELSE "except"
    /\ \E w \in WindowCallAt :
          CASE w = "hide" -> CallHide
            [] w = "show" -> CallShow
            [] OTHER -> UNCHANGED winVars
    /\ elapsed' = 0
    /\ UNCHANGED <<objVars, pageVars, uiVars, raceVars, attempt, result, outcome, tolerated, trace>>
    /\ UNCHANGED auxVars

\* the page navigates while a call drives it
LocationChanges ==
    /\ pc \in Running
    /\ \E u \in Locations \ {url} : url' = u
    /\ UNCHANGED <<objVars, msg, links, cookies, clockVars, winVars, callVars>>
    /\ UNCHANGED auxVars

\* the landing page renders its course list
ListRenders ==
    /\ pc = "extract"
    /\ \E ls \in PageLinkLists \ {links} : links' = ls
    /\ UNCHANGED <<objVars, url, msg, cookies, clockVars, winVars, callVars>>
    /\ UNCHANGED auxVars

\* the provider's script rewrites the status element
StatusChanges ==
    /\ pc \in Running
    /\ \E m \in MsgStates \ {msg} : msg' = m
    /\ UNCHANGED <<objVars, url, links, cookies, clockVars, winVars, callVars>>
    /\ UNCHANGED auxVars

----------------------------------------------------------------------------
Step ==
    \/ navigate_to_login_hide
    \/ navigate_to_login_get
    \/ navigate_to_login_link
    \/ navigate_to_login_click
    \/ navigate_to_login_click_js
    \/ navigate_to_login_after_click
    \/ navigate_to_login_poll
    \/ perform_login_form
    \/ perform_login_type
    \/ perform_login_click
    \/ perform_login_click_js
    \/ wait_for_home_start
    \/ wait_for_home_poll
    \/ wait_for_home_final
    \/ extract_courses
    \/ create_session
    \/ login_except
    \/ login_finally

Next ==
    \/ \E a \in 0..MaxAttempt : Call(a)
    \/ Step
    \/ Interrupt
    \/ LocationChanges
    \/ StatusChanges
    \/ ListRenders

Spec == Init /\ [][Next]_vars

\* The calls of one caller that is never interrupted; a step of the running
\* call is eventually taken (the interpreter keeps executing the call).  The
\* environment is the location and the status element, which the polls of
\* lines 183-206 and 321-385 read; the course list stays as the driver.get
\* of line 100 left it (lines 400-433 pass over a list once, whatever it
\* holds).
NextLive ==
    \/ \E a \in 0..MaxAttempt : Call(a)
    \/ Step
    \/ LocationChanges
    \/ StatusChanges

LiveSpec == Init /\ [][NextLive]_vars /\ WF_vars(Step)

----------------------------------------------------------------------------
(* Course extraction applied to the course lists of LinkLists: the call    *)
(* stands before line 55, the race resolved to Success.                    *)

ExtractInit ==
    /\ pc = "extract"
    /\ attempt = 0
    /\ hasWindow = FALSE
    /\ session = NoSession
    /\ courses = <<>>
    /\ url = {HOME_URL_MARKER}
    /\ msg = [present |-> FALSE, displayed |-> FALSE, html |-> <<>>]
    /\ elapsed = 0
    /\ exc = NoExc
    /\ result = NoResult
    /\ outcome = Success
    /\ hides = 0
    /\ shows = 0
    /\ lastWin = "none"
    /\ tolerated = FALSE
    /\ trace = <<"Navigator", "Submitter", "Race">>
    /\ links \in LinkLists
    /\ cookies = PortalCookies
    /\ sent = {"keys", "click"}
    /\ pollFaults = FALSE
    /\ AuxAtRest

ExtractNext == extract_courses

ExtractSpec == ExtractInit /\ [][ExtractNext]_vars

----------------------------------------------------------------------------
(* Session creation applied to the cookie lists of CookieLists: the call   *)
(* stands before line 56.                                                  *)

SessionInit ==
    /\ pc = "create_session"
    /\ attempt = 0
    /\ hasWindow = FALSE
    /\ session = NoSession
    /\ courses = <<>>
    /\ url = {HOME_URL_MARKER}
    /\ msg = [present |-> FALSE, displayed |-> FALSE, html |-> <<>>]
    /\ elapsed = 0
    /\ exc = NoExc
    /\ result = NoResult
    /\ outcome = Success
    /\ hides = 0
    /\ shows = 0
    /\ lastWin = "none"
    /\ tolerated = FALSE
    /\ trace = <<"Navigator", "Submitter", "Race", "Extractor">>
    /\ links = <<>>
    /\ cookies \in CookieLists
    /\ sent = {"keys", "click"}
    /\ pollFaults = FALSE
    /\ AuxAtRest

SessionNext == create_session

SessionSpec == SessionInit /\ [][SessionNext]_vars

----------------------------------------------------------------------------
(* ensure_course_config (course_config.py, lines 45-121)                   *)

(* One call on the course list `list`.  read_ok is FALSE when the read of  *)
(* an existing file raises OSError (line 61).  written tells how the write  *)
(* of lines 115-117 ends: "written", "failed" (open raises OSError and the  *)
(* file is as before) or "torn" (the file was opened for writing and        *)
(* json.dump raised: what is left is not JSON).                            *)
ensure_course_config(list) ==
    \E read_ok \in BOOLEAN, written \in {"written", "failed", "torn"} :
        LET data == LoadData(config_file, read_ok)
            is_created == config_file.kind = "absent"
            normalised == Normalise(data, list, Len(list))
        IN  /\ live' = list
            /\ IF NeedsWrite(normalised, data, is_created)
               THEN /\ config_file' =
                          CASE written = "written" -> ConfigFile(normalised)
                            [] written = "failed" -> config_file
                            [] OTHER -> InvalidFile
                    /\ cfg_written' =
                          IF written = "written" THEN "written" ELSE "failed"
               ELSE /\ UNCHANGED config_file
                    /\ cfg_written' = "none"
            /\ cfg_return' = [created |-> is_created, courses |-> normalised]
            /\ cfg_read_failed' = (config_file.kind = "config" /\ ~read_ok)
            /\ cfg_before' = config_file
            /\ cfg_prev' = cfg_return
            /\ cfg_calls' = cfg_calls + 1

\* a caller calls ensure_course_config on a course list
ConfigCall ==
    /\ cfg_calls = 0
    /\ \E list \in LiveLists : ensure_course_config(list)
    /\ UNCHANGED <<loginVars, edgeVars, mainVars>>

\* the caller calls it again on the same list and the file the call left
ConfigCallAgain ==
    /\ cfg_calls \in 1..(MaxCalls - 1)
    /\ ensure_course_config(live)
    /\ UNCHANGED <<loginVars, edgeVars, mainVars>>

\* PKUAuth.__init__ without a display surface, before any call of login
LoginAtRest ==
    /\ pc = "idle"
    /\ attempt = 0
    /\ hasWindow = FALSE
    /\ session = NoSession
    /\ courses = <<>>
    /\ url = {}
    /\ msg = [present |-> FALSE, displayed |-> FALSE, html |-> <<>>]
    /\ elapsed = 0
    /\ exc = NoExc
    /\ result = NoResult
    /\ outcome = Pending
    /\ hides = 0
    /\ shows = 0
    /\ lastWin = "none"
    /\ tolerated = FALSE
    /\ trace = <<>>
    /\ links = <<>>
    /\ cookies = PortalCookies
    /\ sent = {}
    /\ pollFaults = FALSE

ConfigInit ==
    /\ LoginAtRest
    /\ EdgeAtRest
    /\ MainAtRest
    /\ config_file \in Files
    /\ live = <<>>
    /\ cfg_return = NoReturn
    /\ cfg_written = "none"
    /\ cfg_read_failed = FALSE
    /\ cfg_before = config_file
    /\ cfg_prev = NoReturn
    /\ cfg_calls = 0

ConfigNext ==
    \/ ConfigCall
    \/ ConfigCallAgain

ConfigSpec == ConfigInit /\ [][ConfigNext]_vars

----------------------------------------------------------------------------
(* install_edge_driver_silently: one call, a step for the request to a     *)
(* source and a step for the archive it sent.                              *)

\* lines 41-44: the version is read; without one the call returns False
install_edge_driver_silently ==
    /\ edge_pc = "idle"
    /\ \E platform \in Platforms, current_user \in RegistryValues,
          local_machine \in RegistryValues :
          edge_version' =
              get_edge_version(platform, current_user, local_machine)
    /\ IF Falsy(edge_version')
       THEN edge_pc' = "done" /\ edge_return' = "False" /\ edge_source' = 0
       ELSE edge_pc' = "get" /\ edge_return' = "none" /\ edge_source' = 1
    /\ UNCHANGED <<edge_resp, edge_contacted, edge_results, edge_file>>
    /\ UNCHANGED <<loginVars, cfgVars, mainVars>>

\* lines 87-89: the except clause and the end of an iteration without a
\* driver: the loop goes to the next source
next_source(ended) ==
    /\ edge_results' = Append(edge_results, ended)
    /\ edge_source' = edge_source + 1
    /\ edge_pc' = "get"

\* lines 58-66: the request to the source
edge_get ==
    /\ edge_pc = "get"
    /\ edge_source <= Len(DownloadSources(edge_version.s))
    /\ edge_contacted' =
          Append(edge_contacted, DownloadSources(edge_version.s)[edge_source])
    /\ \E resp \in Responses :
          /\ edge_resp' = resp
          /\ IF resp.kind \in { "error", "status" }
             THEN next_source("download error")
             ELSE /\ edge_pc' = "unzip"
                  /\ UNCHANGED <<edge_source, edge_results>>
    /\ UNCHANGED <<edge_version, edge_file, edge_return>>
    /\ UNCHANGED <<loginVars, cfgVars, mainVars>>

\* lines 69-85: the archive is opened and the first file with the driver's
\* name is written to target_dir; open() or write() may raise OSError
edge_unzip ==
    /\ edge_pc = "unzip"
    /\ IF edge_resp.kind = "badzip"
       THEN /\ next_source("bad archive")
            /\ UNCHANGED <<edge_file, edge_return>>
       ELSE IF FirstDriver(edge_resp.names) = 0
       THEN /\ next_source("no driver")
            /\ UNCHANGED <<edge_file, edge_return>>
       ELSE \E written \in { "written", "not opened", "torn" } :
               IF written = "written"
               THEN /\ edge_file' =
                         DriverFile("written",
                             DownloadSources(edge_version.s)[edge_source].name)
                    /\ edge_return' = "True"
                    /\ edge_pc' = "done"
                    /\ edge_results' = Append(edge_results, "written")
                    /\ UNCHANGED edge_source
               ELSE /\ edge_file' = IF written = "torn"
                                    THEN DriverFile("torn", "")
                                    ELSE edge_file
                    /\ next_source("not written")
                    /\ UNCHANGED edge_return
    /\ UNCHANGED <<edge_version, edge_resp, edge_contacted>>
    /\ UNCHANGED <<loginVars, cfgVars, mainVars>>

\* lines 90-91: no source is left
edge_exhausted ==
    /\ edge_pc = "get"
    /\ edge_source > Len(DownloadSources(edge_version.s))
    /\ edge_pc' = "done"
    /\ edge_return' = "False"
    /\ UNCHANGED <<edge_version, edge_source, edge_resp, edge_contacted,
                   edge_results, edge_file>>
    /\ UNCHANGED <<loginVars, cfgVars, mainVars>>

EdgeInit ==
    /\ LoginAtRest
    /\ ConfigAtRest
    /\ MainAtRest
    /\ edge_pc = "idle"
    /\ edge_version = None
    /\ edge_source = 0
    /\ edge_resp = NoResponse
    /\ edge_contacted = <<>>
    /\ edge_results = <<>>
    /\ edge_file \in { NoDriverFile, OldDriverFile }
    /\ edge_return = "none"

EdgeNext ==
    \/ install_edge_driver_silently
    \/ edge_get
    \/ edge_unzip
    \/ edge_exhausted

EdgeSpec == EdgeInit /\ [][EdgeNext]_vars

----------------------------------------------------------------------------
(* main (src/main.py) from the start of the browser driver on: one step    *)
(* for each statement that can fail or be interrupted; login runs as the   *)
(* call steps above, ensure_course_config as its one step.                 *)

\* the course dicts of login as ensure_course_config reads them: they have
\* name, id and url, no available_tabs
LiveOf(cs) ==
    [i \in 1..Len(cs) |->
        [id |-> Str(cs[i].id), name |-> Str(cs[i].name),
         available_tabs |-> None]]

\* a return statement inside the try block: the value is kept and the
\* finally block runs
Return(value, path) ==
    /\ main_return' = value
    /\ main_exit' = main_exit \cup {path}
    /\ main_pc' = "finally"

\* lines 128-138: get_driver; without a driver main returns 1 at once
main_get_driver ==
    /\ main_pc = "start"
    /\ \E started \in BOOLEAN :
          IF started
          THEN /\ driver' = TRUE
               /\ main_pc' = "auth"
               /\ UNCHANGED <<main_return, main_exit>>
          ELSE /\ main_return' = "1"
               /\ main_exit' = {"no driver"}
               /\ main_pc' = "exit"
               /\ UNCHANGED driver
    /\ UNCHANGED <<quits, main_exc>>
    /\ UNCHANGED <<loginVars, cfgVars, edgeVars>>

\* line 143: PKUAuth(driver), no window
main_auth ==
    /\ main_pc = "auth"
    /\ main_pc' = "login"
    /\ UNCHANGED <<driver, quits, main_return, main_exit, main_exc>>
    /\ UNCHANGED <<loginVars, cfgVars, edgeVars>>

\* line 144: auth.login is called once
main_login_call == main_pc = "login" /\ pc = "idle" /\ Call(0)

\* the call of line 144 runs
main_login_step == main_pc = "login" /\ Step
main_login_interrupt == main_pc = "login" /\ Interrupt
main_login_location == main_pc = "login" /\ LocationChanges
main_login_status == main_pc = "login" /\ StatusChanges
main_login_list == main_pc = "login" /\ ListRenders

\* lines 144-152: login returned; without a session main returns 1
main_login_returned ==
    /\ main_pc = "login"
    /\ pc = "returned"
    /\ IF ~result.session.present
       THEN Return("1", "login failure")
       ELSE /\ main_pc' = "config"
            /\ UNCHANGED <<main_return, main_exit>>
    /\ UNCHANGED <<driver, quits, main_exc>>
    /\ UNCHANGED <<loginVars, cfgVars, edgeVars>>

\* line 144: the interrupt left login
main_login_raised ==
    /\ main_pc = "login"
    /\ pc = "raised"
    /\ main_exc' = "KeyboardInterrupt"
    /\ main_pc' = "except"
    /\ UNCHANGED <<driver, quits, main_return, main_exit>>
    /\ UNCHANGED <<loginVars, cfgVars, edgeVars>>

\* line 164
main_ensure_course_config ==
    /\ main_pc = "config"
    /\ ensure_course_config(LiveOf(result.courses))
    /\ main_pc' = IF cfg_return'.created THEN "prompt" ELSE "merge"
    /\ UNCHANGED <<driver, quits, main_return, main_exit, main_exc>>
    /\ UNCHANGED <<loginVars, edgeVars>>

\* lines 166-182: the prompt after a new configuration; input() raises
\* EOFError when the input is closed
main_prompt ==
    /\ main_pc = "prompt"
    /\ \E choice \in { "q", "", "EOF" } :
          CASE choice = "q" ->
                  Return("0", "user quit") /\ UNCHANGED main_exc
            [] choice = "" ->
                  /\ main_pc' = "merge"
                  /\ UNCHANGED <<main_return, main_exit, main_exc>>
            [] OTHER ->
                  /\ main_exc' = "Exception"
                  /\ main_pc' = "except"
                  /\ UNCHANGED <<main_return, main_exit>>
    /\ UNCHANGED <<driver, quits>>
    /\ UNCHANGED <<loginVars, cfgVars, edgeVars>>

\* lines 185-192: the preferences are merged; the driver is set
main_merge ==
    /\ main_pc = "merge"
    /\ main_pc' = IF driver THEN "quit_try" ELSE "filter"
    /\ UNCHANGED <<driver, quits, main_return, main_exit, main_exc>>
    /\ UNCHANGED <<loginVars, cfgVars, edgeVars>>

\* line 194: the log line inside the try block of the quit
main_quit_log ==
    /\ main_pc = "quit_try"
    /\ main_pc' = "quit"
    /\ UNCHANGED <<driver, quits, main_return, main_exit, main_exc>>
    /\ UNCHANGED <<loginVars, cfgVars, edgeVars>>

\* lines 195-197: driver.quit(); an Exception it raises is logged
main_quit ==
    /\ main_pc = "quit"
    /\ quits' = quits + 1
    /\ \E failed \in BOOLEAN :
          main_exit' = IF failed THEN main_exit \cup {"quit failed"}
                       ELSE main_exit
    /\ main_pc' = "quit_finally"
    /\ UNCHANGED <<driver, main_return, main_exc>>
    /\ UNCHANGED <<loginVars, cfgVars, edgeVars>>

\* lines 198-199
main_quit_finally ==
    /\ main_pc = "quit_finally"
    /\ driver' = FALSE
    /\ main_pc' = "filter"
    /\ UNCHANGED <<quits, main_return, main_exit, main_exc>>
    /\ UNCHANGED <<loginVars, cfgVars, edgeVars>>

\* lines 201-239: the courses to download are chosen from the arguments and
\* the configuration
main_filter ==
    /\ main_pc = "filter"
    /\ \E path \in { "course not found", "no courses", "dry run",
                     "download" } :
          CASE path = "course not found" -> Return("1", path)
            [] path \in { "no courses", "dry run" } -> Return("0", path)
            [] OTHER -> /\ main_pc' = "download"
                        /\ UNCHANGED <<main_return, main_exit>>
    /\ UNCHANGED <<driver, quits, main_exc>>
    /\ UNCHANGED <<loginVars, cfgVars, edgeVars>>

\* lines 241-245: the download; what it raises is a fatal error
main_download ==
    /\ main_pc = "download"
    /\ \E raised \in BOOLEAN :
          IF raised
          THEN /\ main_exc' = "Exception"
               /\ main_pc' = "except"
               /\ UNCHANGED <<main_return, main_exit>>
          ELSE Return("0", "completed") /\ UNCHANGED main_exc
    /\ UNCHANGED <<driver, quits>>
    /\ UNCHANGED <<loginVars, cfgVars, edgeVars>>

\* lines 247-254: the except clauses of main
main_except ==
    /\ main_pc = "except"
    /\ IF main_exc = "KeyboardInterrupt"
       THEN Return("130", "interrupt")
       ELSE Return("1", "fatal error")
    /\ main_exc' = "none"
    /\ UNCHANGED <<driver, quits>>
    /\ UNCHANGED <<loginVars, cfgVars, edgeVars>>

\* lines 255-256: the finally block tests the driver
main_finally ==
    /\ main_pc = "finally"
    /\ main_pc' = IF driver THEN "finally_quit" ELSE "exit"
    /\ UNCHANGED <<driver, quits, main_return, main_exit, main_exc>>
    /\ UNCHANGED <<loginVars, cfgVars, edgeVars>>

\* line 257: driver.quit(); an exception it raises leaves main in place of
\* the return value
main_finally_quit ==
    /\ main_pc = "finally_quit"
    /\ quits' = quits + 1
    /\ \E failed \in BOOLEAN :
          IF failed
          THEN /\ main_return' = "raised"
               /\ main_exit' = main_exit \cup {"quit failed"}
          ELSE UNCHANGED <<main_return, main_exit>>
    /\ main_pc' = "exit"
    /\ UNCHANGED <<driver, main_exc>>
    /\ UNCHANGED <<loginVars, cfgVars, edgeVars>>

\* the positions of main inside the try block of lines 140-245, outside
\* login
MainTry ==
    { "auth", "config", "prompt", "merge", "quit_try", "quit",
      "quit_finally", "filter", "download" }

(* One KeyboardInterrupt is raised before or in a statement of main.  In   *)
(* the try block of lines 193-199 the finally clause runs first and clears *)
(* driver, unless the interrupt arrives in that clause, before the         *)
(* assignment.  In driver.quit() the call was made.  An interrupt in an    *)
(* except clause or in the finally block of main leaves main.              *)
main_interrupt ==
    /\ main_pc \in MainTry \cup { "except", "finally", "finally_quit" }
    /\ "interrupt" \notin main_exit /\ main_exc # "KeyboardInterrupt"
    /\ pc # "raised"
    /\ main_exit' = main_exit \cup (IF main_pc \in MainTry THEN {"interrupt"}
                                     ELSE {"interrupt", "in cleanup"})
    /\ CASE main_pc \in MainTry ->
              /\ main_exc' = "KeyboardInterrupt"
              /\ main_pc' = "except"
              /\ driver' = IF main_pc \in { "quit_try", "quit" }
                           THEN FALSE ELSE driver
              /\ \E called \in BOOLEAN :
                    quits' = IF main_pc = "quit" /\ called
                             THEN quits + 1 ELSE quits
              /\ UNCHANGED main_return
         [] main_pc = "except" ->
              /\ main_exc' = "KeyboardInterrupt"
              /\ main_pc' = "finally"
              /\ main_return' = "raised"
              /\ UNCHANGED <<driver, quits>>
         [] OTHER ->
              /\ main_exc' = "KeyboardInterrupt"
              /\ main_pc' = "exit"
              /\ main_return' = "raised"
              /\ \E called \in BOOLEAN :
                    quits' = IF main_pc = "finally_quit" /\ called
                             THEN quits + 1 ELSE quits
              /\ UNCHANGED driver
    /\ UNCHANGED <<loginVars, cfgVars, edgeVars>>

\* the configuration files of the runs of main: none, not JSON, no entry,
\* the preferences of a user for course 1 alone and beside a stale id
MainFiles ==
    { AbsentFile, InvalidFile, ConfigFile(EmptyMap),
      ConfigFile(Put(EmptyMap, <<"1">>, OtherEntry)),
      ConfigFile(Put(Put(EmptyMap, <<"1">>, OtherEntry), <<"9">>,
                     OtherEntry)) }

MainInit ==
    /\ LoginAtRest
    /\ EdgeAtRest
    /\ config_file \in MainFiles
    /\ live = <<>>
    /\ cfg_return = NoReturn
    /\ cfg_written = "none"
    /\ cfg_read_failed = FALSE
    /\ cfg_before = config_file
    /\ cfg_prev = NoReturn
    /\ cfg_calls = 0
    /\ main_pc = "start"
    /\ driver = FALSE
    /\ quits = 0
    /\ main_return = "none"
    /\ main_exit = {}
    /\ main_exc = "none"

MainNext ==
    \/ main_get_driver
    \/ main_auth
    \/ main_login_call
    \/ main_login_step
    \/ main_login_interrupt
    \/ main_login_location
    \/ main_login_status
    \/ main_login_list
    \/ main_login_returned
    \/ main_login_raised
    \/ main_ensure_course_config
    \/ main_prompt
    \/ main_merge
    \/ main_quit_log
    \/ main_quit
    \/ main_quit_finally
    \/ main_filter
    \/ main_download
    \/ main_except
    \/ main_finally
    \/ main_finally_quit
    \/ main_interrupt

MainSpec == MainInit /\ [][MainNext]_vars

----------------------------------------------------------------------------
(* Properties *)

Range(f) == { f[i] : i \in DOMAIN f }

SuccessShape(r) == r.session.present /\ r.error.isNone
FailureShape(r) == ~r.session.present /\ r.courses = <<>> /\ ~r.error.isNone

\* the messages login builds for a fault of the automation layer
FaultMessages ==
    {LOGIN_TIMEOUT_MSG}
    \cup { BROWSER_ERROR_PREFIX \o Take(t, MsgLimit) : t \in FaultTexts }
    \cup { UNKNOWN_ERROR_PREFIX \o Take(t, MsgLimit) : t \in FaultTexts }

\* the texts the status element can carry as an error
ProviderMessages ==
    { CleanText(h) : h \in { g \in StatusHtmls : IsErrorTextFinal(CleanText(g)) } }

\* the visible status text carries an in-progress phrase
ProgressShown ==
    /\ msg.present
    /\ msg.displayed
    /\ \/ Contains(CleanText(msg.html), PROGRESS_ZH)
       \/ Contains(CleanText(msg.html), PROGRESS_EN)

\* a step of the call taken inside the poll window of _wait_for_home: one
\* iteration of the loop
PollStep ==
    /\ pc = "wait_poll"
    /\ PollWindowOpen
    /\ exc'.kind # "KeyboardInterrupt"
    /\ <<pc, elapsed, outcome>>' # <<pc, elapsed, outcome>>

\* the step of the code after the loop, lines 370-385
FinalStep ==
    /\ pc = "wait_poll"
    /\ ~PollWindowOpen
    /\ pc' = "except"
    /\ exc'.kind # "KeyboardInterrupt"

\* the exception of line 385
HomeTimeout == Exc("TimeoutException", <<"home">>)

(* C1: every login call that returns, returns (session, courses, None)   *)
(* with a session, or (None, [], message) with a message, and never a    *)
(* mix of the two.                                                       *)
C1_ReturnShape ==
    pc = "returned" =>
        /\ SuccessShape(result) \/ FailureShape(result)
        /\ ~(SuccessShape(result) /\ FailureShape(result))
        /\ ~(result.session.present /\ ~result.error.isNone)
        /\ ~(~result.session.present /\ result.error.isNone)

\* a second call on the object fails after a first one succeeded
C1_Witness ==
    /\ pc = "returned"
    /\ FailureShape(result)
    /\ session.present

(* C2 as stated: an iteration that finds the marker in the location and  *)
(* a visible error text resolves to AuthError with that text, not to     *)
(* Success.                                                              *)
C2_FailureBeforeSuccess ==
    [][ (PollStep /\ HOME_URL_MARKER \in url /\ ShowsError(msg)
           /\ outcome' # Pending)
        => outcome' = AuthError(CleanText(msg.html)) ]_vars

(* C2 amended: the location is examined first.  An iteration that finds  *)
(* the marker in the location and a visible error text resolves to       *)
(* Success, or resolves nothing when its read of the location faults;    *)
(* it never resolves to AuthError.                                       *)
C2_SuccessBeforeFailure ==
    [][ (PollStep /\ HOME_URL_MARKER \in url /\ ShowsError(msg))
        => \/ outcome' = Success
           \/ outcome' = Pending /\ tolerated' ]_vars

C2_Witness ==
    /\ pc = "extract"
    /\ outcome = Success
    /\ HOME_URL_MARKER \in url
    /\ ShowsError(msg)
    /\ ~tolerated

C4_FirstObservedWins ==
    /\ [][ (PollStep /\ HOME_URL_MARKER \in url /\ ~ShowsError(msg))
           => \/ outcome' = Success
              \/ outcome' = Pending /\ tolerated' ]_vars
    /\ [][ (PollStep /\ HOME_URL_MARKER \notin url /\ ShowsError(msg))
           => \/ outcome' = AuthError(CleanText(msg.html))
              \/ outcome' = Pending /\ tolerated' ]_vars
    /\ [][ (PollStep /\ HOME_URL_MARKER \notin url /\ ~ShowsError(msg))
           => outcome' = Pending ]_vars
    /\ [][ (outcome # Pending /\ pc' # "nav_hide") => outcome' = outcome ]_vars
    /\ [](pc = "returned" /\ outcome.tag = "AuthError"
            => result = [session |-> NoSession, courses |-> <<>>,
                         error |-> Str(outcome.msg)])

\* the error text was observed first and the marker came afterwards
C4_Witness ==
    /\ pc = "returned"
    /\ outcome.tag = "AuthError"
    /\ result.error = Str(outcome.msg)
    /\ HOME_URL_MARKER \in url
    /\ ~ShowsError(msg)

(* C5: while the visible status text carries an in-progress phrase no    *)
(* step resolves the race to AuthError, neither an iteration nor the     *)
(* final check; inside the poll window and without the marker the        *)
(* outcome stays pending.                                                *)
C5_InProgressIsNotAnError ==
    [][ (pc = "wait_poll" /\ ProgressShown)
        => /\ outcome'.tag # "AuthError"
           /\ (PollWindowOpen /\ HOME_URL_MARKER \notin url) => outcome' = Pending
      ]_vars

\* the phrase is still shown when the ceiling ends the call
C5_Witness ==
    /\ pc = "returned"
    /\ outcome = Timeout
    /\ ProgressShown
    /\ result.error = Str(LOGIN_TIMEOUT_MSG)

(* C6 as stated: when the poll window ends with nothing observed, login  *)
(* returns (None, [], text) for an error text visible at the final       *)
(* check and (None, [], timeout message) otherwise; no exception         *)
(* escapes.                                                              *)
C6_FinalCheckOrTimeout ==
    /\ (pc = "returned" /\ outcome.tag \in {"AuthError", "Timeout", "Fault"}) =>
          /\ FailureShape(result)
          /\ \/ result.error = Str(LOGIN_TIMEOUT_MSG)
             \/ \E m \in ProviderMessages : result.error = Str(m)
    /\ (pc = "raised" => Interrupted)

(* C6 amended: when the poll window ends with nothing observed, the      *)
(* location is read for the log and one final check of the status        *)
(* element is made.  When these reads succeed, login returns (None, [],  *)
(* text) for an error text visible then and (None, [], timeout message)  *)
(* otherwise; when one of them faults, login returns (None, [], the      *)
(* message of that fault): the timeout, browser-error or unknown-error   *)
(* message.  No exception escapes.                                       *)
C6_FinalCheckOrTimeoutOrFault ==
    /\ [][ FinalStep =>
             /\ exc'.kind = "LoginError" =>
                   ShowsErrorFinal(msg) /\ exc'.text = CleanText(msg.html)
             /\ exc' = HomeTimeout => ~ShowsErrorFinal(msg)
             /\ outcome'.tag \in {"AuthError", "Timeout"} =>
                   exc' = IF ShowsErrorFinal(msg)
                          THEN Exc("LoginError", CleanText(msg.html))
                          ELSE HomeTimeout ]_vars
    /\ [](pc = "returned" /\ outcome.tag = "AuthError" =>
             FailureShape(result) /\ result.error = Str(outcome.msg))
    /\ [](pc = "returned" /\ outcome.tag = "Timeout" =>
             FailureShape(result) /\ result.error = Str(LOGIN_TIMEOUT_MSG))
    /\ [](pc = "returned" /\ outcome.tag = "Fault" =>
             FailureShape(result) /\ result.error.s \in FaultMessages)
    /\ [](pc = "raised" => Interrupted)

\* a read after the poll window faulted and login returned that fault
C6_Witness ==
    /\ pc = "returned"
    /\ outcome = Fault
    /\ FailureShape(result)
    /\ result.error.s \in FaultMessages \ {LOGIN_TIMEOUT_MSG}

(* C7 as stated: every fault raised in a phase of login is turned into   *)
(* a returned (None, [], message), and none leaves login.                *)
C7_EveryFaultIsAFailure ==
    /\ (pc = "returned" /\ tolerated) => FailureShape(result)
    /\ (pc = "raised" => Interrupted)

(* C7 amended: no fault raised in a phase of login leaves login.  A      *)
(* fault that reaches the except clauses of login (navigation, form      *)
(* lookup, typing, a click whose script click fails too, the reads after *)
(* the poll window, session creation) is turned into a returned (None,   *)
(* [], message).  A fault that is caught and logged where it occurs      *)
(* (hide and show of the display surface, the scan and the scroll, a     *)
(* native click with a working script click, a read inside a poll        *)
(* iteration, extraction) leaves the call running, and the call may      *)
(* still return (session, courses, None).                                *)
C7_NoFaultLeavesLogin ==
    /\ [](pc = "raised" => Interrupted)
    /\ [][ (pc = "except" /\ ~Interrupted /\ pc' = "finally" /\ exc'.kind # "KeyboardInterrupt")
           => exc' = NoExc /\ FailureShape(result') ]_vars
    /\ [][ (pc = "finally" /\ pc' = "returned")
           => result' = result /\ exc = NoExc ]_vars
    /\ [](pc = "returned" => SuccessShape(result) \/ FailureShape(result))

\* a fault was tolerated and the call returned a session
C7_Witness ==
    /\ pc = "returned"
    /\ tolerated
    /\ SuccessShape(result)
    /\ ~hasWindow

(* C8: an interrupt arriving during login leaves login as an interrupt,  *)
(* never as a returned failure, and a supplied display surface has been  *)
(* shown after its last hide when the interrupt leaves login.            *)
C8_InterruptRestoresSurface ==
    /\ Interrupted => pc # "returned"
    /\ (pc = "raised" /\ Interrupted /\ hasWindow) => lastWin # "hide"

(* C9: every login call of a caller that is not interrupted eventually   *)
(* returns, whatever the location, the status element and the faults of  *)
(* the driver do.                                                        *)
C9_LoginReturns == (pc \in Running) ~> (pc = "returned")

\* the outcome poll ran to its ceiling although reads of the driver faulted,
\* and the call returned
C9_Witness ==
    /\ pc = "returned"
    /\ outcome = Timeout
    /\ tolerated
    /\ HOME_URL_MARKER \notin url
    /\ ~msg.present

(* C10: courses are extracted and a session is created only after the    *)
(* race resolved to Success; when the race resolved to AuthError or      *)
(* Timeout, or navigation or submission failed, neither phase runs and   *)
(* the session field is not assigned.                                    *)
C10_SessionOnlyAfterSuccess ==
    /\ [](pc \in {"extract", "create_session"} => outcome = Success)
    /\ []("Extractor" \in Range(trace) \/ "Materializer" \in Range(trace)
            => outcome = Success)
    /\ [][ (session' # session \/ courses' # courses) => outcome = Success ]_vars

C10_Witness ==
    /\ pc = "returned"
    /\ outcome = Timeout
    /\ trace = <<"Navigator", "Submitter", "Race">>
    /\ ~session.present

\* the step of _extract_courses (the interrupt apart)
ExtractStep ==
    /\ pc = "extract"
    /\ pc' # "extract"
    /\ exc'.kind # "KeyboardInterrupt"

(* C11: a failure of course extraction after Success never turns the     *)
(* login into an error outcome.  Whether or not a read of extraction     *)
(* faults, the step raises nothing, leaves the outcome Success, assigns  *)
(* the records of the links read before the fault (possibly none) and    *)
(* goes on to session creation; and when session creation returns,       *)
(* login returns (session, courses, None) with these courses.            *)
C11_ExtractionNeverFails ==
    /\ [][ ExtractStep =>
             /\ pc' = "create_session"
             /\ exc' = NoExc
             /\ outcome' = Success
             /\ \E n \in 0..Len(links) : courses' = ExtractCourses(links, n) ]_vars
    /\ [][ (pc = "create_session" /\ pc' = "finally" /\ exc' = NoExc) =>
             /\ session'.present
             /\ result' = [session |-> session', courses |-> courses,
                           error |-> None] ]_vars
    /\ [](pc = "returned" /\ SuccessShape(result) =>
             result.courses = courses /\ result.session = session)

\* the page shows a course, extraction faulted before reading it, and login
\* returned a session with no course
C11_Witness ==
    /\ pc = "returned"
    /\ SuccessShape(result)
    /\ result.courses = <<>>
    /\ ExtractCourses(links, Len(links)) # <<>>

(* C12: the message login returns for an AuthError outcome is the        *)
(* provider's status text cut to a bounded length: it is never longer    *)
(* than the bound (MsgLimit, the one bound login cuts a message to).     *)
C12_AuthErrorMessageBounded ==
    (pc = "returned" /\ outcome.tag = "AuthError") =>
        Len(result.error.s) <= MsgLimit

\* extraction of the links has ended
Extracted == pc = "create_session"

\* the last colon of either kind in a text, 0 when it has none
LastColon(text) ==
    LET P == { i \in 1..Len(text) : text[i] \in {COLON, FW_COLON} }
    IN  IF P = {} THEN 0 ELSE CHOOSE i \in P : \A j \in P : j <= i

\* the first parenthesis of either kind after position c, 0 when none follows
FirstParenAfter(text, c) ==
    LET P == { i \in (c + 1)..Len(text) : text[i] \in {LPAREN, FW_LPAREN} }
    IN  IF P = {} THEN 0 ELSE CHOOSE i \in P : \A j \in P : i <= j

\* a text of the form ...:NAME(extra), with a colon and a parenthesis of
\* either kind
WellFormedText(text) ==
    LastColon(text) # 0 /\ FirstParenAfter(text, LastColon(text)) # 0

\* NAME trimmed
NameOf(text) ==
    Strip(SubSeq(text, LastColon(text) + 1,
                 FirstParenAfter(text, LastColon(text)) - 1))

(* C13: for a link text of the form ...:NAME(extra), with an ASCII or a  *)
(* full-width colon and parenthesis, the name of the record extracted    *)
(* for the link is NAME trimmed: the text after the last colon of either *)
(* kind and before the first parenthesis of either kind after it.        *)
C13_NameBetweenColonAndParen ==
    (Extracted /\ Len(links) = 1 /\ Len(courses) = 1
       /\ WellFormedText(links[1].text))
    => courses[1].name = NameOf(links[1].text)

\* the href carries a token id=PkId{key=VALUE,...}: the marker and a comma
\* after it
HasToken(href) ==
    /\ ~href.isNone
    /\ \E i \in 1..Len(href.s) : \E j \in (i + 1)..Len(href.s) :
          href.s[i] = KEY_MARKER /\ href.s[j] = COMMA

\* VALUE of the first token of the href
TokenValue(href) ==
    LET i == CHOOSE k \in 1..Len(href.s) :
                 /\ href.s[k] = KEY_MARKER
                 /\ \A l \in 1..(k - 1) : href.s[l] # KEY_MARKER
        j == CHOOSE k \in (i + 1)..Len(href.s) :
                 /\ href.s[k] = COMMA
                 /\ \A l \in (i + 1)..(k - 1) : href.s[l] # COMMA
    IN  SubSeq(href.s, i + 1, j - 1)

\* the links whose href carries a token
TokenLinks == { i \in 1..Len(links) : HasToken(links[i].href) }

(* C14: the id of every record extraction emits is the VALUE of the      *)
(* token id=PkId{key=VALUE,...} of a link's href, the records being in   *)
(* the order of their links; a link whose href lacks the token gives no  *)
(* record; and a single link with a name and a token of non-empty VALUE  *)
(* gives the record with id VALUE.                                       *)
C14_IdIsTheKeyValue ==
    Extracted =>
        /\ \A j \in 1..Len(courses) : \E i \in TokenLinks :
              courses[j].id = TokenValue(links[i].href)
        /\ Len(courses) <= Cardinality(TokenLinks)
        /\ (Len(links) = 1 /\ ~HasToken(links[1].href)) => courses = <<>>
        /\ (Len(links) = 1 /\ HasToken(links[1].href) /\ ~tolerated
              /\ TokenValue(links[1].href) # <<>> /\ links[1].text = GoodText)
           => /\ Len(courses) = 1
              /\ courses[1].id = TokenValue(links[1].href)

\* a link without the token before a link with it: one record, of the second
C14_Witness ==
    /\ Extracted
    /\ Len(links) = 2
    /\ ~HasToken(links[1].href)
    /\ HasToken(links[2].href)
    /\ Len(courses) = 1
    /\ courses[1].id = TokenValue(links[2].href)

\* a link gives a record: a name, an id and an href, none empty
Complete(link) ==
    /\ CourseName(link.text) # <<>>
    /\ HasToken(link.href) /\ TokenValue(link.href) # <<>>
    /\ link.href.s # <<>>

\* the positions of the links that give a record, in order
RECURSIVE CompleteLinks(_)
CompleteLinks(ls) ==
    IF ls = <<>> THEN <<>>
    ELSE CompleteLinks(SubSeq(ls, 1, Len(ls) - 1))
            \o (IF Complete(ls[Len(ls)]) THEN <<Len(ls)>> ELSE <<>>)

(* C15: every record of the list extraction returns has a non-empty      *)
(* name, a non-empty id and a non-empty url.  A link for which one of    *)
(* the three is empty or cannot be derived gives no record and does not  *)
(* stop the loop: when no read faults, the list holds one record for     *)
(* every other link, in the order of the links.                          *)
C15_RecordsAreComplete ==
    Extracted =>
        /\ \A j \in 1..Len(courses) :
              /\ courses[j].name # <<>>
              /\ courses[j].id # <<>>
              /\ courses[j].url # <<>>
        /\ ~tolerated =>
              LET c == CompleteLinks(links) IN
              /\ Len(courses) = Len(c)
              /\ \A j \in 1..Len(c) :
                    /\ courses[j].name = CourseName(links[c[j]].text)
                    /\ courses[j].id = TokenValue(links[c[j]].href)

\* links that give no record before and after one that does
C15_Witness ==
    /\ Extracted
    /\ ~tolerated
    /\ Len(links) = 3
    /\ ~Complete(links[1])
    /\ Complete(links[2])
    /\ ~Complete(links[3])
    /\ Len(courses) = 1

\* _create_session has returned the session
Materialized == pc = "finally" /\ session.present

\* the cookies of the handle that have a name and a value
Named == { i \in 1..Len(cookies) : HasNameAndValue(cookies[i]) }

\* a field the cookie has is the entry's
Kept(field, copied) == field = ABSENT \/ copied = field

\* the entry is a copy of the cookie
CopyOf(e, c) ==
    /\ e.name = c.name
    /\ e.value = c.value
    /\ Kept(c.domain, e.domain)
    /\ Kept(c.path, e.path)
    /\ Kept(c.secure, e.secure)
    /\ Kept(c.expiry, e.expires)

\* a later cookie of the list takes the place of cookie i in the jar
Replaced(i) ==
    \E k \in Named : k > i /\ CookieKey(CookieEntry(cookies[k]))
                                  = CookieKey(CookieEntry(cookies[i]))

(* C16: session creation from N cookies of the handle gives at most N    *)
(* entries.  Every entry is the copy of a cookie that has a name and a   *)
(* value, with the domain, path, secure flag and expiry of that cookie;  *)
(* every such cookie is copied (a later cookie of the same name, domain  *)
(* and path takes its place); a cookie lacking a name or a value gives   *)
(* no entry.                                                             *)
C16_CookiesCopied ==
    Materialized =>
        /\ Cardinality(session.cookies) <= Len(cookies)
        /\ Cardinality(session.cookies) <= Cardinality(Named)
        /\ \A e \in session.cookies : \E i \in Named : CopyOf(e, cookies[i])
        /\ \A i \in Named :
              Replaced(i) \/ \E e \in session.cookies : CopyOf(e, cookies[i])
        /\ (\A i \in Named : ~Replaced(i))
              => Cardinality(session.cookies) = Cardinality(Named)

\* two cookies, the first without a value: one entry, with the path and the
\* expiry of the second
C16_Witness ==
    /\ Materialized
    /\ Len(cookies) = 2
    /\ cookies[1].value = ABSENT
    /\ cookies[2].path # ABSENT
    /\ cookies[2].expiry # ABSENT
    /\ Cardinality(session.cookies) = 1
    /\ \E e \in session.cookies : CopyOf(e, cookies[2])

\* one pass of the redirect poll of _navigate_to_login (lines 184-206)
RedirectStep ==
    /\ pc = "nav_poll"
    /\ exc'.kind # "KeyboardInterrupt"
    /\ <<pc, elapsed, exc>>' # <<pc, elapsed, exc>>

\* more ticks than the timeout of the attempt have passed: 5 time-units for
\* attempt 0, 15 for every later attempt
PastRedirectTimeout ==
    /\ attempt = 0 => elapsed > 5 * TicksPerSecond
    /\ attempt >= 1 => elapsed > 15 * TicksPerSecond

(* C17: the redirect poll uses the timeout of 5 time-units for attempt 0 *)
(* and of 15 for every attempt >= 1.  A pass fails only when more than   *)
(* that time has elapsed since the poll began, and then it does fail; a  *)
(* pass within the time that reads the location inside the provider      *)
(* domain ends the poll without error (or a read of the pass faulted,    *)
(* was logged, and the poll goes on); a pass within the time that finds  *)
(* the location outside the domain sleeps and polls again.               *)
C17_RedirectTimeout ==
    /\ [][ (RedirectStep /\ exc' # NoExc) => PastRedirectTimeout ]_vars
    /\ [][ (RedirectStep /\ PastRedirectTimeout)
           => pc' = "except" /\ exc' # NoExc ]_vars
    /\ [][ (RedirectStep /\ pc' = "perf_form")
           => IAAA_DOMAIN \in url /\ exc' = NoExc /\ ~PastRedirectTimeout ]_vars
    /\ [][ (RedirectStep /\ ~PastRedirectTimeout /\ IAAA_DOMAIN \in url)
           => \/ pc' = "perf_form"
              \/ pc' = "nav_poll" /\ tolerated' /\ elapsed' > elapsed ]_vars
    /\ [][ (RedirectStep /\ ~PastRedirectTimeout /\ IAAA_DOMAIN \notin url)
           => pc' = "nav_poll" /\ elapsed' > elapsed /\ exc' = NoExc ]_vars

\* the redirect poll of a retry timed out
C17_Witness ==
    /\ pc = "except"
    /\ attempt = 1
    /\ exc = Exc("TimeoutException", <<"redirect">>)
    /\ trace = <<"Navigator">>

\* a step of the call at position p that leaves p (the interrupt apart)
StepAt(p) ==
    /\ pc = p
    /\ pc' # p
    /\ exc'.kind # "KeyboardInterrupt"

\* the positions of a call in the order of the code
PcOrder ==
    << "idle", "nav_hide", "nav_get", "nav_link", "nav_click", "nav_click_js",
       "nav_after_click", "nav_poll", "perf_form", "perf_type", "perf_click",
       "perf_click_js", "wait_start", "wait_poll", "extract", "create_session",
       "except", "finally", "returned", "raised" >>

PcRank(p) == CHOOSE i \in 1..Len(PcOrder) : PcOrder[i] = p

\* within a call the position only moves forward: no statement runs twice
\* but the passes of the two poll loops
ForwardOnly ==
    [][ (pc' # pc /\ pc' # "nav_hide") => PcRank(pc') > PcRank(pc) ]_vars

(* C18: when one of the three form controls does not become visible or   *)
(* clickable within its timeout, the Credential Submitter fails before   *)
(* any character is typed and before any submit click: the step of the   *)
(* waits sends nothing and either goes on to typing or raises; what it   *)
(* raises is caught by login, no later phase runs, and login returns     *)
(* (None, [], message), the timeout message for the TimeoutException of  *)
(* a wait.  Keys and clicks are sent by the steps after the waits only.  *)
C18_FormNotFoundFailsFirst ==
    /\ [][ StepAt("perf_form") =>
             /\ sent = {} /\ sent' = {}
             /\ \/ pc' = "perf_type" /\ exc' = NoExc
                \/ pc' = "except" /\ Handles(exc'.kind) ]_vars
    /\ [][ sent' # sent =>
             \/ pc = "perf_type" /\ sent' \subseteq {"keys"}
             \/ pc = "perf_click" /\ sent' = sent \cup {"click"}
             \/ pc' = "nav_hide" /\ sent' = {} ]_vars
    /\ ForwardOnly
    /\ [][ (StepAt("except") /\ exc.kind = "TimeoutException") =>
             /\ pc' = "finally"
             /\ result' = [session |-> NoSession, courses |-> <<>>,
                           error |-> Str(LOGIN_TIMEOUT_MSG)] ]_vars
    /\ [](pc = "returned" /\ "Race" \notin Range(trace) => FailureShape(result))

\* a wait for a control timed out: nothing was sent and login returned the
\* timeout message
C18_Witness ==
    /\ pc = "returned"
    /\ trace = <<"Navigator", "Submitter">>
    /\ sent = {}
    /\ result = [session |-> NoSession, courses |-> <<>>,
                 error |-> Str(LOGIN_TIMEOUT_MSG)]

\* the native click of a control goes on to `done` with nothing logged, or
\* fails, is logged, and goes on to the script click `fallback`
NativeThenScript(native, fallback, done) ==
    /\ StepAt(native) =>
          /\ exc' = NoExc
          /\ \/ pc' = done /\ tolerated' = tolerated
             \/ pc' = fallback /\ tolerated'
    /\ (pc' = fallback /\ pc # fallback) => (pc = native /\ tolerated')
    /\ StepAt(fallback) =>
          \/ pc' = done /\ exc' = NoExc
          \/ pc' = "except" /\ Handles(exc'.kind)

(* C19: for the login-method link and for the submit control, the script *)
(* click is issued if and only if the native click failed: a native      *)
(* click that succeeds goes on to the next step with no script click, a  *)
(* native click that fails is logged and followed by the script click.   *)
(* Each of the two clicks of a control is issued at most once in a call  *)
(* (positions only move forward).  When the script click fails too, its  *)
(* fault is caught by login, which returns a failure: the next phase     *)
(* does not run.                                                         *)
C19_ScriptClickIffNativeFailed ==
    /\ [][ NativeThenScript("nav_click", "nav_click_js", "nav_after_click") ]_vars
    /\ [][ NativeThenScript("perf_click", "perf_click_js", "wait_start") ]_vars
    /\ ForwardOnly
    /\ [][ StepAt("except") => pc' = "finally" /\ trace' = trace ]_vars
    /\ [][ StepAt("finally") => pc' = "returned" /\ trace' = trace ]_vars
    /\ [](pc = "returned" /\ "Race" \notin Range(trace) => FailureShape(result))

\* the native and the script click on the submit control both failed and
\* login returned a failure without entering the outcome race
C19_Witness ==
    /\ pc = "returned"
    /\ "click" \in sent
    /\ trace = <<"Navigator", "Submitter">>
    /\ tolerated
    /\ FailureShape(result)

\* the phases of a login call, in their order
Phases == <<"Navigator", "Submitter", "Race", "Extractor", "Materializer">>

(* C20: within one login call the phases run at most once each and only  *)
(* in the order Navigator, Credential Submitter, Outcome Race Detector,  *)
(* Course List Extractor, Session Materializer: the phases entered are   *)
(* always a prefix of that order.  No statement of a phase runs again    *)
(* in the call (positions only move forward), and once an exception has  *)
(* reached login no phase is entered.  The attempt index is fixed during *)
(* the call and is used for the redirect timeout alone: the window of    *)
(* the outcome poll is max_wait for every attempt.                       *)
C20_PhasesOnceInOrder ==
    /\ [](Len(trace) <= Len(Phases) /\ trace = SubSeq(Phases, 1, Len(trace)))
    /\ ForwardOnly
    /\ [][ (pc \in {"except", "finally", "returned", "raised"})
           => (trace' = trace \/ pc' = "nav_hide") ]_vars
    /\ [][ (pc' # "nav_hide") => (attempt' = attempt) ]_vars
    /\ [][ (StepAt("wait_poll") /\ outcome' \in {Timeout, Fault})
           => elapsed >= max_wait * TicksPerSecond ]_vars
    /\ [][ (StepAt("wait_poll") /\ outcome' = Success)
           => elapsed < max_wait * TicksPerSecond ]_vars

\* a retry (attempt 1) went through all five phases and returned
C20_Witness ==
    /\ pc = "returned"
    /\ attempt = 1
    /\ trace = Phases
    /\ SuccessShape(result)

----------------------------------------------------------------------------
\* a step of the outcome poll inside its window (not the interrupt, not a
\* change of the page)
PollIteration ==
    /\ pc = "wait_poll"
    /\ PollWindowOpen
    /\ <<pc, elapsed, outcome, pollFaults>>' # <<pc, elapsed, outcome, pollFaults>>
    /\ exc'.kind # "KeyboardInterrupt"

\* the iteration slept one interval and the loop polls again
PollsAgain ==
    /\ pc' = "wait_poll"
    /\ elapsed' > elapsed
    /\ UNCHANGED <<exc, outcome>>

(* C21: a fault of a read in an iteration of the outcome poll does not end *)
(* the race: that iteration sleeps one interval and the loop polls again;  *)
(* an iteration inside the window ends the race only on the home marker    *)
(* (Success) or on a displayed error text (AuthError with that text),      *)
(* whatever faulted before, and the race ends as an automation fault only  *)
(* after the window has closed.                                            *)
C21_PollFaultDoesNotEndRace ==
    /\ [][ (pollFaults' /\ ~pollFaults) => (PollIteration /\ PollsAgain) ]_vars
    /\ [][ PollIteration =>
             \/ PollsAgain
             \/ /\ HOME_URL_MARKER \in url
                /\ outcome' = Success
                /\ pc' = "extract"
                /\ UNCHANGED exc
             \/ /\ HOME_URL_MARKER \notin url
                /\ ShowsError(msg)
                /\ outcome' = AuthError(CleanText(msg.html))
                /\ exc' = Exc("LoginError", CleanText(msg.html)) ]_vars
    /\ [][ (outcome' = Fault /\ outcome # Fault) =>
              (pc = "wait_poll" /\ ~PollWindowOpen) ]_vars
    /\ [](pc = "returned" /\ outcome.tag = "AuthError"
             => result.error = Str(outcome.msg))

\* a read faulted in an iteration, a later iteration saw the home marker and
\* login returned the session
C21_Witness ==
    /\ pc = "returned"
    /\ pollFaults
    /\ outcome = Success
    /\ SuccessShape(result)

(* C22: whenever the most recent login on the object returned an error      *)
(* message, the stored session is None and the stored course list is empty. *)
C22_FailureLeavesNothingStored ==
    (pc = "returned" /\ FailureShape(result))
        => (~session.present /\ courses = <<>>)

----------------------------------------------------------------------------
(* ensure_course_config *)

\* the courses mapping a content of the file holds (none when the content
\* is not a payload with a courses dict)
StoredIn(f) == IF f.kind = "config" THEN f.courses ELSE EmptyMap

\* the mapping the file held when the last call began, and the mapping the
\* call read from it
StoredBefore == StoredIn(cfg_before)
Loaded == IF cfg_read_failed THEN EmptyMap ELSE StoredBefore

\* the ids of the live list that are not empty
LiveIds ==
    { live[i].id.s : i \in { j \in 1..Len(live) :
                               ~live[j].id.isNone /\ live[j].id.s # <<>> } }

\* the last course of the live list with the id
LastOf(id) ==
    live[CHOOSE i \in 1..Len(live) :
            /\ live[i].id = Str(id)
            /\ \A j \in (i + 1)..Len(live) : live[j].id # Str(id)]

Returned == cfg_return.courses

\* a name without blanks around it
Clean(item) == item # <<>> /\ Head(item) # " " /\ item[Len(item)] # " "
CleanList(value) ==
    /\ value.kind = "list"
    /\ value.v # <<>>
    /\ \A i \in 1..Len(value.v) : Clean(value.v[i])

\* the text of a stored alias (JSON null reads as no text)
AliasText(entry) == IF entry.alias.isNone THEN <<>> ELSE entry.alias.s

\* the keys an entry lacks hold the defaults in the returned entry
DefaultsFilled(stored, out) ==
    /\ "alias" \notin stored.keys => out.alias = Str(<<>>)
    /\ "skip" \notin stored.keys => out.skip = FALSE
    /\ "flatten" \notin stored.keys => out.flatten = TRUE
    /\ "sections" \notin stored.keys
          => out.sections = SectionList(<< <<DEFAULT_TAB>> >>)

\* the entry written to the file is the entry returned
WrittenAsReturned(id) ==
    cfg_written = "written"
        => (config_file.kind = "config"
            /\ id \in DOMAIN config_file.courses
            /\ config_file.courses[id] = Returned[id])

NoWriteError == cfg_written # "failed"
FileWasRead == ~cfg_read_failed

SecondCallOnFirstResult ==
    /\ cfg_calls = 2
    /\ cfg_before.kind # "absent"
    /\ StoredIn(cfg_before) = cfg_prev.courses
    /\ FileWasRead

SavedTabs(id) ==
    IF id \in DOMAIN Loaded /\ "selected_tabs" \in Loaded[id].keys
    THEN Loaded[id].selected_tabs
    ELSE None

\* the tabs of the last live course with the id
TabsOf(id) == AvailableTabs(LastOf(id))

\* the items of a list that are tabs of the course, in their order
StillAvailable(tabs, id) ==
    LET Offered(t) == \E i \in 1..Len(TabsOf(id)) : TabsOf(id)[i] = t
    IN  SelectSeq(tabs, Offered)

ContactedNames == [i \in 1..Len(edge_contacted) |-> edge_contacted[i].name]

\* the ways the iteration of a source ends without a written driver
SourceFailures ==
    { "download error", "bad archive", "no driver", "not written" }

\* the last answer is an archive with a file of the driver's name
Delivered ==
    /\ edge_resp.kind = "zip"
    /\ \E i \in 1..Len(edge_resp.names) :
          HasSubstring(edge_resp.names[i], DRIVER_EXE)

(* C29: the Microsoft source is contacted first and the mirror only after  *)
(* the iteration of the first source failed; the call returns True exactly *)
(* when a source delivered the driver and it was written, and then that    *)
(* source is the last one contacted; without a detected version the call   *)
(* returns False and no source is contacted.                               *)
C29_SourcesInOrder ==
    /\ ContactedNames \in { <<>>, <<"Microsoft Azure">>,
                            <<"Microsoft Azure", "Aliyun Mirror">> }
    /\ \A i \in 1..Len(edge_contacted) :
          /\ HasSubstring(edge_contacted[i].url, edge_version.s)
          /\ \A j \in 1..(i - 1) :
                j <= Len(edge_results) /\ edge_results[j] \in SourceFailures
    /\ edge_return = "True"
          <=> /\ edge_pc = "done"
              /\ Delivered
              /\ edge_file.state = "written"
              /\ edge_contacted # <<>>
              /\ edge_file.from = ContactedNames[Len(edge_contacted)]
    /\ edge_pc = "done" => edge_return \in { "True", "False" }
    /\ edge_pc # "done" => edge_return = "none"
    /\ edge_return = "False"
          => \/ Falsy(edge_version) /\ edge_contacted = <<>>
             \/ /\ Len(edge_contacted) = 2
                /\ \A j \in 1..2 : edge_results[j] \in SourceFailures
                /\ edge_file.state # "written"
    /\ (edge_pc # "idle" /\ Falsy(edge_version))
          => edge_return = "False" /\ edge_contacted = <<>>

\* the archive of the Microsoft source held no driver, the mirror's did and
\* it was written: True, two sources contacted
C29_Witness ==
    /\ edge_return = "True"
    /\ ContactedNames = <<"Microsoft Azure", "Aliyun Mirror">>
    /\ edge_results = <<"no driver", "written">>
    /\ edge_file = DriverFile("written", "Aliyun Mirror")
    /\ edge_resp = Response("zip", <<<<"notes", ".txt">>, <<"x64/">> \o DRIVER_EXE>>)

(* main *)

\* main has left, by a return or an exception, with the driver started
DriverStartedAndLeft == main_pc = "exit" /\ "no driver" \notin main_exit

(* C23: once the driver was started, driver.quit() is called exactly once  *)
(* on every path by which main leaves: never twice, and not zero times     *)
(* when main has left.  (An interrupt that arrives in an except clause or  *)
(* in the finally block of main, where no statement of main can answer it, *)
(* is left aside.)                                                         *)
C23_QuitExactlyOnce ==
    "in cleanup" \notin main_exit =>
        /\ quits <= 1
        /\ DriverStartedAndLeft => quits = 1

\* login succeeded with no course because a fault of the extraction was
\* tolerated, and main called ensure_course_config on a file with entries,
\* which met no write error
EmptyListOnStoredEntries ==
    /\ main_pc \notin { "start", "auth", "login", "config" }
    /\ cfg_calls = 1
    /\ result.session.present
    /\ tolerated
    /\ result.courses = <<>>
    /\ cfg_before.kind = "config"
    /\ DOMAIN StoredIn(cfg_before) # {}
    /\ cfg_written # "failed"

(* C28: when login succeeds with an empty course list after a tolerated    *)
(* extraction failure, the call of ensure_course_config in main leaves the *)
(* entries stored in an existing configuration file as they were.          *)
C28_PreferencesSurvive ==
    EmptyListOnStoredEntries => StoredIn(config_file) = StoredIn(cfg_before)

====
